---- MODULE Spec2Model ----
(***************************************************************************)
(* A model of gpt-mcp-server: an MCP server over stdio that forwards text  *)
(* generation requests to the OpenAI API.  The repository holds three      *)
(* revisions of src/index.ts (1.0.0 and 1.1.0 on the Chat Completions API, *)
(* 2.0.0 on the Responses API); the variable `version` says which one the  *)
(* modelled process runs.                                                  *)
(***************************************************************************)
EXTENDS Integers, Sequences, FiniteSets, TLC

VARIABLES
    version,              \* SERVER_VERSION of the revision the process runs
    apiKey,               \* process.env.OPENAI_API_KEY
    CONFIGURED_MODEL,     \* process.env.GPT_MODEL
    ACTIVE_MODEL,         \* let ACTIVE_MODEL
    MODEL_FALLBACK_USED,  \* let MODEL_FALLBACK_USED
    pc,                   \* where module initialisation and main() stand
    exitCode,             \* the code process.exit was called with, if it was
    connected,            \* server.connect(transport) has resolved
    inflight,             \* tool handlers suspended at their upstream await
    last,                 \* the tool call that completed most recently
    listCalls,            \* openai.models.list() calls issued so far
    valCalls,             \* validateConfiguredModel() invocations so far
    valOutcome,           \* how validateConfiguredModel() ended, and the
                          \* identifiers the listing call resolved with
    fnIn,                 \* argument of the utility function under test
    fnOut                 \* its result

procVars == <<version, apiKey, CONFIGURED_MODEL, ACTIVE_MODEL,
              MODEL_FALLBACK_USED, pc, exitCode, connected, inflight, last,
              listCalls, valCalls, valOutcome>>
fnVars == <<fnIn, fnOut>>
vars == <<version, apiKey, CONFIGURED_MODEL, ACTIVE_MODEL,
          MODEL_FALLBACK_USED, pc, exitCode, connected, inflight, last,
          listCalls, valCalls, valOutcome, fnIn, fnOut>>

---------------------------------------------------------------------------
(* Bounds of the model. *)

\* tool handlers suspended at their upstream call at the same time
MaxInFlight == 2
\* messages in one converse call
MaxMessages == 2
\* how many characters beyond (and below) CHARACTER_LIMIT the long texts go
MaxExcess == 2

\* the largest token count of a usage object tried
MaxUnits == 3
\* output items in one upstream response, and content parts in one item
MaxItems == 2
MaxParts == 2

---------------------------------------------------------------------------
(* JavaScript values.  An optional value is a sequence of length at most   *)
(* one: None is undefined (an absent property, an unset variable), Some(x) *)
(* is the defined value x.                                                 *)

None == <<>>
Some(x) == <<x>>
IsSome(m) == m # <<>>
Get(m) == m[1]

\* JavaScript truthiness of an optional string: undefined and "" are falsy.
Truthy(m) == m # <<>> /\ m[1] # ""

\* a || b on an optional string a and a string b
OrElse(m, d) == IF Truthy(m) THEN m[1] ELSE d

\* a ?? b
Coalesce(m, d) == IF m # <<>> THEN m[1] ELSE d

---------------------------------------------------------------------------
(* Strings.  Short strings (identifiers, messages, templates) are TLA+     *)
(* strings.  A text that can be as long as the character limit is a rope:  *)
(* a sequence of pieces [v |-> s, n |-> k], each standing for the first k  *)
(* characters of s repeated without end (a literal s is its own first      *)
(* Len(s) characters; a run of k equal characters c has v = c).  Length,   *)
(* concatenation and prefix are those of the strings the ropes stand for.  *)
(* Lengths count UTF-16 code units, as String.prototype.length does.       *)

Lit(s) == IF s = "" THEN <<>> ELSE <<[v |-> s, n |-> Len(s)]>>
Run(c, k) == IF k = 0 THEN <<>> ELSE <<[v |-> c, n |-> k]>>

RECURSIVE TLen(_)
TLen(t) == IF t = <<>> THEN 0 ELSE t[1].n + TLen(Tail(t))

\* a + b
TConcat(a, b) ==
    IF a = <<>> THEN b
    ELSE IF b = <<>> THEN a
    ELSE LET p == a[Len(a)]
             q == b[1]
         IN  IF p.v = q.v /\ p.n % Len(p.v) = 0
             THEN SubSeq(a, 1, Len(a) - 1)
                    \o <<[v |-> p.v, n |-> p.n + q.n]>> \o Tail(b)
             ELSE a \o b

\* text.slice(0, k)
RECURSIVE TSlice(_, _)
TSlice(t, k) ==
    IF k <= 0 \/ t = <<>> THEN <<>>
    ELSE IF t[1].n >= k THEN <<[v |-> t[1].v, n |-> k]>>
    ELSE <<t[1]>> \o TSlice(Tail(t), k - t[1].n)

\* `${n}` for a number n
NumStr(n) == ToString(n)

\* String.prototype.toLowerCase, character by character
LowerCh(c) ==
    CASE c = "A" -> "a" [] c = "B" -> "b" [] c = "C" -> "c" [] c = "D" -> "d"
      [] c = "E" -> "e" [] c = "F" -> "f" [] c = "G" -> "g" [] c = "H" -> "h"
      [] c = "I" -> "i" [] c = "J" -> "j" [] c = "K" -> "k" [] c = "L" -> "l"
      [] c = "M" -> "m" [] c = "N" -> "n" [] c = "O" -> "o" [] c = "P" -> "p"
      [] c = "Q" -> "q" [] c = "R" -> "r" [] c = "S" -> "s" [] c = "T" -> "t"
      [] c = "U" -> "u" [] c = "V" -> "v" [] c = "W" -> "w" [] c = "X" -> "x"
      [] c = "Y" -> "y" [] c = "Z" -> "z" [] OTHER -> c

RECURSIVE toLowerCase(_)
toLowerCase(s) ==
    IF s = "" THEN "" ELSE LowerCh(Head(s)) \o toLowerCase(Tail(s))

\* String.prototype.includes
includes(s, sub) ==
    \E i \in 1..(Len(s) - Len(sub) + 1) : SubSeq(s, i, i + Len(sub) - 1) = sub

---------------------------------------------------------------------------
(* Constants of src/index.ts. *)

Versions == {"1.0.0", "1.1.0", "2.0.0"}

FALLBACK_MODEL == "gpt-5.1-codex"

CHARACTER_LIMIT == 25000

\* 1.0.0 has no default: it never sends a reasoning effort.
DEFAULT_REASONING_EFFORT(ver) == IF ver = "2.0.0" THEN "low" ELSE "minimal"

\* The warning sign of the notices, U+26A0 U+FE0F: two UTF-16 code units.
WARNING_SIGN == "^^"

\* The grave accent that quotes the parameter name in the notices (the
\* character itself cannot be written in a string of this module).
GRAVE == "'"

---------------------------------------------------------------------------
(* truncateResponse.  Revision 1.0.0 has no such function; 1.1.0 and 2.0.0 *)
(* differ only in the parameter the notice names.                          *)

LimitParameter(ver) == IF ver = "2.0.0" THEN "max_output_tokens" ELSE "max_tokens"

TruncationNotice(ver, length) ==
    TConcat(Lit("\n\n---\n" \o WARNING_SIGN \o " **Response truncated** from "),
    TConcat(Lit(NumStr(length)),
    TConcat(Lit(" to "),
    TConcat(Lit(NumStr(CHARACTER_LIMIT)),
            Lit(" characters. Use " \o GRAVE \o LimitParameter(ver) \o GRAVE
                \o " parameter to limit output size.")))))

\* Faulty variant: the comparison is strict, so a text of exactly
\* CHARACTER_LIMIT characters is reported as truncated.
truncateResponse_StrictLimit(ver, text) ==
    IF TLen(text) < CHARACTER_LIMIT
    THEN [text |-> text, truncated |-> FALSE]
    ELSE [text |-> TConcat(TSlice(text, CHARACTER_LIMIT),
                           TruncationNotice(ver, TLen(text))),
          truncated |-> TRUE]

\* Faulty variant: the cut makes room for nothing and the notice is left
\* out, so the returned text never exceeds CHARACTER_LIMIT.
truncateResponse_NoNotice(ver, text) ==
    IF TLen(text) <= CHARACTER_LIMIT
    THEN [text |-> text, truncated |-> FALSE]
    ELSE [text |-> TSlice(text, CHARACTER_LIMIT), truncated |-> TRUE]

truncateResponse(ver, text) ==
    IF TLen(text) <= CHARACTER_LIMIT
    THEN [text |-> text, truncated |-> FALSE]
    ELSE [text |-> TConcat(TSlice(text, CHARACTER_LIMIT),
                           TruncationNotice(ver, TLen(text))),
          truncated |-> TRUE]

---------------------------------------------------------------------------
(* handleOpenAIError.  A thrown value is [kind, status, message]: kind is  *)
(* "APIError" (instanceof OpenAI.APIError, whose status is a number or     *)
(* undefined), "Error" (any other Error) or "value" (anything else, whose  *)
(* message field holds String(value)).  The function is the same in the    *)
(* three revisions.                                                        *)

MsgInvalidKey ==
    "Error: Invalid API key. Please verify your OPENAI_API_KEY at platform.openai.com/api-keys"
MsgRateLimit ==
    "Error: Rate limit exceeded. Please wait and try again, or check your API quota."
MsgQuota ==
    "Error: API quota exceeded. Please check your billing at platform.openai.com/usage"
MsgModelNotFound ==
    "Error: Model not found. Please check the model name is correct."
MsgPermission ==
    "Error: Permission denied. Your API key may not have access to this model."
MsgTimeout ==
    "Error: Request timed out. Please try again with a shorter prompt."

StatusStr(status) == IF IsSome(status) THEN NumStr(Get(status)) ELSE "undefined"

GenericApiError(status, message) ==
    "Error: OpenAI API error (" \o StatusStr(status) \o "): " \o message

\* Faulty variant: the message is searched for "timeout" before the status
\* is looked at.
handleOpenAIError_TimeoutFirst(error) ==
    IF error.kind = "APIError"
    THEN LET status == error.status
             message == toLowerCase(error.message)
         IN  IF includes(message, "timeout") THEN MsgTimeout
             ELSE IF status = Some(401) THEN MsgInvalidKey
             ELSE IF status = Some(429) THEN MsgRateLimit
             ELSE IF status = Some(402) THEN MsgQuota
             ELSE IF status = Some(404) THEN MsgModelNotFound
             ELSE IF status = Some(403) THEN MsgPermission
             ELSE GenericApiError(status, error.message)
    ELSE IF error.kind = "Error"
    THEN "Error: " \o error.message
    ELSE "Error: Unexpected error occurred: " \o error.message

\* Faulty variant: the message is searched for "timeout" as it is written,
\* without lower-casing it first.
handleOpenAIError_CaseSensitive(error) ==
    IF error.kind = "APIError"
    THEN LET status == error.status
         IN  IF status = Some(401) THEN MsgInvalidKey
             ELSE IF status = Some(429) THEN MsgRateLimit
             ELSE IF status = Some(402) THEN MsgQuota
             ELSE IF status = Some(404) THEN MsgModelNotFound
             ELSE IF status = Some(403) THEN MsgPermission
             ELSE IF includes(error.message, "timeout") THEN MsgTimeout
             ELSE GenericApiError(status, error.message)
    ELSE IF error.kind = "Error"
    THEN "Error: " \o error.message
    ELSE "Error: Unexpected error occurred: " \o error.message

\* Faulty variant: the answer depends on the call served before, a second
\* failure in a row gets a message of its own.
handleOpenAIError_Stateful(error) ==
    IF last # None /\ ~Get(last).outcome.ok
    THEN "Error: The service is still failing."
    ELSE IF error.kind = "APIError"
    THEN LET status == error.status
             message == toLowerCase(error.message)
         IN  IF status = Some(401) THEN MsgInvalidKey
             ELSE IF status = Some(429) THEN MsgRateLimit
             ELSE IF status = Some(402) THEN MsgQuota
             ELSE IF status = Some(404) THEN MsgModelNotFound
             ELSE IF status = Some(403) THEN MsgPermission
             ELSE IF includes(message, "timeout") THEN MsgTimeout
             ELSE GenericApiError(status, error.message)
    ELSE IF error.kind = "Error"
    THEN "Error: " \o error.message
    ELSE "Error: Unexpected error occurred: " \o error.message

handleOpenAIError(error) ==
    IF error.kind = "APIError"
    THEN LET status == error.status
             message == toLowerCase(error.message)
         IN  IF status = Some(401) THEN MsgInvalidKey
             ELSE IF status = Some(429) THEN MsgRateLimit
             ELSE IF status = Some(402) THEN MsgQuota
             ELSE IF status = Some(404) THEN MsgModelNotFound
             ELSE IF status = Some(403) THEN MsgPermission
             ELSE IF includes(message, "timeout") THEN MsgTimeout
             ELSE GenericApiError(status, error.message)
    ELSE IF error.kind = "Error"
    THEN "Error: " \o error.message
    ELSE "Error: Unexpected error occurred: " \o error.message

---------------------------------------------------------------------------
(* Startup: the credential check and validateConfiguredModel.              *)

\* Faulty variant: only an unset credential is refused, an empty one passes.
EnvironmentOk_DefinedOnly(key) == IsSome(key)

\* if (!apiKey) { ...; process.exit(1); }
EnvironmentOk(key) == Truthy(key)

\* Faulty variant: an empty override is validated like any other.
NeedsValidation_DefinedOnly(configured) == IsSome(configured)

\* if (!CONFIGURED_MODEL) return;   (true: the listing call is made)
NeedsValidation(configured) == Truthy(configured)

\* Faulty variant: the fallback is selected but the flag is not raised.
ListingResolved_NoFlag(configured, modelIds, active, used) ==
    LET modelExists == configured \in modelIds
    IN  IF ~modelExists
        THEN [active |-> FALLBACK_MODEL, used |-> used]
        ELSE [active |-> active, used |-> used]

\* Faulty variant: the fallback is selected whatever the listing holds.
ListingResolved_AlwaysFallback(configured, modelIds, active, used) ==
    [active |-> FALLBACK_MODEL, used |-> TRUE]

\* Faulty variant: the flag is raised but the configured model stays active.
ListingResolved_FlagOnly(configured, modelIds, active, used) ==
    LET modelExists == configured \in modelIds
    IN  IF ~modelExists
        THEN [active |-> active, used |-> TRUE]
        ELSE [active |-> active, used |-> used]

\* The try block after the listing call resolved with the identifiers
\* modelIds: the new values of ACTIVE_MODEL and MODEL_FALLBACK_USED.
ListingResolved(configured, modelIds, active, used) ==
    LET modelExists == configured \in modelIds
    IN  IF ~modelExists
        THEN [active |-> FALLBACK_MODEL, used |-> TRUE]
        ELSE [active |-> active, used |-> used]

\* Faulty variant: a failed listing call is treated as "model not found".
ListingRejected_Fallback(configured, active, used) ==
    [active |-> FALLBACK_MODEL, used |-> TRUE]

\* The catch block: a warning, and nothing is assigned.
ListingRejected(configured, active, used) ==
    [active |-> active, used |-> used]

\* Faulty variant: requests are served as soon as the process runs.
ToolsReachable_BeforeConnect(isConnected, where) == where # "exited"

\* Tool requests are read from stdin only once the transport is connected.
ToolsReachable(isConnected, where) == isConnected

---------------------------------------------------------------------------
(* Tool parameters, as the caller sent them.  params is a record           *)
(*   [tool, input, messages, model, instructions, reasoning_effort,        *)
(*    max_tokens, temperature, top_p, response_format]                     *)
(* whose optional fields are None or Some(value); max_tokens stands for    *)
(* max_output_tokens in revision 2.0.0.                                    *)

ReasoningEfforts(ver) ==
    IF ver = "1.0.0" THEN {"low", "medium", "high"}
    ELSE IF ver = "1.1.0" THEN {"none", "minimal", "low", "medium", "high"}
    ELSE {"none", "low", "medium", "high"}

MessageRoles(ver) ==
    IF ver = "2.0.0" THEN {"user", "assistant"}
    ELSE {"user", "assistant", "developer"}

\* the keys the model gives the arguments of a generation call: tool, which
\* names the tool called, and the parameters of the two input schemas
ParamKeys ==
    {"tool", "input", "messages", "model", "instructions", "reasoning_effort",
     "max_tokens", "temperature", "top_p", "response_format"}

\* Faulty variant: the schemas are not strict, a key they do not name is
\* let through.
SchemaAccepts_Lenient(ver, p) ==
    IF p.tool = "status" THEN TRUE
    ELSE
    /\ p.tool = "generate" => Len(p.input) >= 1
    /\ p.tool = "converse" =>
          /\ Len(p.messages) >= 1
          /\ \A i \in 1..Len(p.messages) :
                /\ p.messages[i].role \in MessageRoles(ver)
                /\ Len(p.messages[i].content) >= 1
    /\ IsSome(p.reasoning_effort) => Get(p.reasoning_effort) \in ReasoningEfforts(ver)
    /\ IsSome(p.max_tokens) => Get(p.max_tokens) >= 1
    /\ IsSome(p.temperature) => Get(p.temperature) \in 0..2
    /\ IsSome(p.top_p) => Get(p.top_p) \in 0..1
    /\ IsSome(p.response_format) =>
          Get(p.response_format) \in {"markdown", "json"}

\* GenerateInputSchema / MessagesInputSchema / StatusInputSchema on the
\* arguments of a call; .strict() refuses every key the schema does not name
SchemaAccepts(ver, p) ==
    IF p.tool = "status" THEN DOMAIN p = {"tool"}
    ELSE
    /\ DOMAIN p \subseteq ParamKeys
    /\ p.tool = "generate" => Len(p.input) >= 1
    /\ p.tool = "converse" =>
          /\ Len(p.messages) >= 1
          /\ \A i \in 1..Len(p.messages) :
                /\ DOMAIN p.messages[i] = {"role", "content"}
                /\ p.messages[i].role \in MessageRoles(ver)
                /\ Len(p.messages[i].content) >= 1
    /\ IsSome(p.reasoning_effort) => Get(p.reasoning_effort) \in ReasoningEfforts(ver)
    /\ IsSome(p.max_tokens) => Get(p.max_tokens) >= 1
    /\ IsSome(p.temperature) => Get(p.temperature) \in 0..2
    /\ IsSome(p.top_p) => Get(p.top_p) \in 0..1
    /\ IsSome(p.response_format) =>
          /\ ver # "1.0.0"
          /\ Get(p.response_format) \in {"markdown", "json"}

\* .default(ResponseFormat.MARKDOWN), and params.response_format ?? MARKDOWN
FormatOf(p) == Coalesce(p.response_format, "markdown")

---------------------------------------------------------------------------
(* The request builder: the part of a handler before its upstream await.   *)
(* The request is a record whose domain is the set of keys the object has; *)
(* the optional numeric keys hold None when the key is there with the      *)
(* value undefined.                                                        *)

Key(name, value) == name :> value
NoKeys == <<>>

InstructionEntry(p) ==
    IF Truthy(p.instructions)
    THEN <<[role |-> "developer", content |-> Get(p.instructions)]>>
    ELSE <<>>

ChatMessages(p) ==
    InstructionEntry(p) \o
    (IF p.tool = "generate"
     THEN <<[role |-> "user", content |-> p.input]>>
     ELSE [i \in 1..Len(p.messages) |->
              [role |-> p.messages[i].role, content |-> p.messages[i].content]])

\* if (x !== undefined) requestOptions.k = x;
IfDefined(name, m) == IF IsSome(m) THEN Key(name, m) ELSE NoKeys

\* Faulty variant: || in place of ??, an empty model name given by the
\* caller is replaced by the active model.
RequestModel_OrActive(p, active) == OrElse(p.model, active)

RequestModel(p, active) == Coalesce(p.model, active)

EffectiveEffort(ver, p) == Coalesce(p.reasoning_effort, DEFAULT_REASONING_EFFORT(ver))

BuildRequest100(p, active) ==
    [model |-> RequestModel(p, active), messages |-> ChatMessages(p),
     max_tokens |-> p.max_tokens, temperature |-> p.temperature,
     top_p |-> p.top_p]

BuildRequest110(p, active) ==
    [model |-> RequestModel(p, active), messages |-> ChatMessages(p)]
      @@ IfDefined("max_tokens", p.max_tokens)
      @@ IfDefined("temperature", p.temperature)
      @@ IfDefined("top_p", p.top_p)
      @@ Key("reasoning_effort", EffectiveEffort("1.1.0", p))

\* input: the prompt string itself, or the list of input items
ResponsesInput(p) ==
    IF p.tool = "generate" THEN [text |-> p.input]
    ELSE [items |-> [i \in 1..Len(p.messages) |->
                       [type |-> "message", role |-> p.messages[i].role,
                        content |-> p.messages[i].content]]]

\* Faulty variant: the effort is sent whatever its value, "none" included.
BuildRequest200_NoneLiteral(p, active) ==
    [model |-> RequestModel(p, active), input |-> ResponsesInput(p)]
      @@ (IF Truthy(p.instructions)
          THEN Key("instructions", Get(p.instructions)) ELSE NoKeys)
      @@ Key("reasoning", [effort |-> EffectiveEffort("2.0.0", p)])
      @@ IfDefined("max_output_tokens", p.max_tokens)
      @@ IfDefined("temperature", p.temperature)
      @@ IfDefined("top_p", p.top_p)

BuildRequest200(p, active) ==
    [model |-> RequestModel(p, active), input |-> ResponsesInput(p)]
      @@ (IF Truthy(p.instructions)
          THEN Key("instructions", Get(p.instructions)) ELSE NoKeys)
      @@ (IF EffectiveEffort("2.0.0", p) # "none"
          THEN Key("reasoning", [effort |-> EffectiveEffort("2.0.0", p)])
          ELSE NoKeys)
      @@ IfDefined("max_output_tokens", p.max_tokens)
      @@ IfDefined("temperature", p.temperature)
      @@ IfDefined("top_p", p.top_p)

BuildRequest(ver, p, active) ==
    IF ver = "1.0.0" THEN BuildRequest100(p, active)
    ELSE IF ver = "1.1.0" THEN BuildRequest110(p, active)
    ELSE BuildRequest200(p, active)

---------------------------------------------------------------------------
(* Upstream responses.  Chat Completions (1.0.0, 1.1.0):                   *)
(*   [choices |-> sequence of message contents, each None (null) or        *)
(*                Some(text), model |-> None or Some(id),                  *)
(*                usage |-> None or                                        *)
(*                Some([prompt_tokens, completion_tokens, total_tokens])]  *)
(* Responses API (2.0.0):                                                  *)
(*   [output |-> None or Some(sequence of items [type, content]), content  *)
(*               a sequence of parts [type, text], model |-> None or       *)
(*               Some(id), usage |-> None or                               *)
(*               Some([input_tokens, output_tokens, total_tokens])]        *)
(* Texts are ropes.                                                        *)

\* response.choices[0]?.message?.content || ""
ChatText(response) ==
    IF Len(response.choices) = 0 THEN <<>>
    ELSE IF response.choices[1] = None THEN <<>>
    ELSE Get(response.choices[1])

\* the texts extractResponseText pushes for one output item
RECURSIVE PartTexts(_)
PartTexts(content) ==
    IF content = <<>> THEN <<>>
    ELSE (IF content[1].type = "output_text" /\ content[1].text # <<>>
          THEN <<content[1].text>> ELSE <<>>)
         \o PartTexts(Tail(content))

RECURSIVE ItemTexts(_)
ItemTexts(output) ==
    IF output = <<>> THEN <<>>
    ELSE (IF output[1].type = "message"
          THEN PartTexts(output[1].content) ELSE <<>>)
         \o ItemTexts(Tail(output))

\* texts.join(sep)
RECURSIVE JoinTexts(_, _)
JoinTexts(texts, sep) ==
    IF texts = <<>> THEN <<>>
    ELSE IF Len(texts) = 1 THEN texts[1]
    ELSE TConcat(texts[1], TConcat(Lit(sep), JoinTexts(Tail(texts), sep)))

\* Faulty variant: the texts of one item are concatenated, and only the
\* items are joined with a blank line.
RECURSIVE ConcatTexts(_)
ConcatTexts(texts) ==
    IF texts = <<>> THEN <<>> ELSE TConcat(texts[1], ConcatTexts(Tail(texts)))

RECURSIVE ItemTexts_Concat(_)
ItemTexts_Concat(output) ==
    IF output = <<>> THEN <<>>
    ELSE (IF output[1].type = "message" /\ PartTexts(output[1].content) # <<>>
          THEN <<ConcatTexts(PartTexts(output[1].content))>> ELSE <<>>)
         \o ItemTexts_Concat(Tail(output))

extractResponseText_ConcatWithinItem(response) ==
    IF response.output = None \/ Get(response.output) = <<>> THEN <<>>
    ELSE JoinTexts(ItemTexts_Concat(Get(response.output)), "\n\n")

extractResponseText(response) ==
    IF response.output = None \/ Get(response.output) = <<>> THEN <<>>
    ELSE JoinTexts(ItemTexts(Get(response.output)), "\n\n")

---------------------------------------------------------------------------
(* JSON.stringify(structuredOutput, null, 2).                              *)

\* the escape of one character inside a JSON string
EscapeCh(c) ==
    CASE c = "\"" -> "\\\""
      [] c = "\\" -> "\\\\"
      [] c = "\n" -> "\\n"
      [] OTHER -> c

RECURSIVE EscapeStr(_)
EscapeStr(s) ==
    IF s = "" THEN "" ELSE EscapeCh(Head(s)) \o EscapeStr(Tail(s))

EscapePiece(p) ==
    LET whole == p.n \div Len(p.v)
        rest == p.n % Len(p.v)
        e == EscapeStr(p.v)
    IN  TConcat(IF whole = 0 THEN <<>> ELSE <<[v |-> e, n |-> whole * Len(e)]>>,
                Lit(EscapeStr(SubSeq(p.v, 1, rest))))

RECURSIVE EscapeText(_)
EscapeText(t) ==
    IF t = <<>> THEN <<>>
    ELSE TConcat(EscapePiece(t[1]), EscapeText(Tail(t)))

JsonString(t) == TConcat(Lit("\""), TConcat(EscapeText(t), Lit("\"")))

\* one member "key": value at the given indentation
JsonMember(indent, key, value) ==
    TConcat(Lit(indent \o "\"" \o key \o "\": "), value)

\* the members of an object, each on its own line
RECURSIVE JoinMembers(_)
JoinMembers(members) ==
    IF members = <<>> THEN <<>>
    ELSE IF Len(members) = 1 THEN members[1]
    ELSE TConcat(members[1], TConcat(Lit(",\n"), JoinMembers(Tail(members))))

JsonObject(indent, members) ==
    IF members = <<>> THEN Lit("{}")
    ELSE TConcat(Lit("{\n"),
         TConcat(JoinMembers(members), Lit("\n" \o indent \o "}")))

\* the three counters of a usage object, in the order of its keys
UsageMembers(ver, usage) ==
    IF ver = "2.0.0"
    THEN <<<<"input_tokens", usage.input_tokens>>,
           <<"output_tokens", usage.output_tokens>>,
           <<"total_tokens", usage.total_tokens>>>>
    ELSE <<<<"prompt_tokens", usage.prompt_tokens>>,
           <<"completion_tokens", usage.completion_tokens>>,
           <<"total_tokens", usage.total_tokens>>>>

JsonUsage(ver, usage) ==
    JsonObject("  ",
        [i \in 1..3 |-> JsonMember("    ", UsageMembers(ver, usage)[i][1],
                                   Lit(NumStr(UsageMembers(ver, usage)[i][2])))])

\* a property whose value is undefined is left out
JsonStructured(ver, so) ==
    JsonObject("",
        <<JsonMember("  ", "text", JsonString(so.text))>>
        \o (IF IsSome(so.model)
            THEN <<JsonMember("  ", "model", JsonString(Lit(Get(so.model))))>>
            ELSE <<>>)
        \o (IF IsSome(so.message_count)
            THEN <<JsonMember("  ", "message_count", Lit(NumStr(Get(so.message_count))))>>
            ELSE <<>>)
        \o (IF IsSome(so.usage)
            THEN <<JsonMember("  ", "usage", JsonUsage(ver, Get(so.usage)))>>
            ELSE <<>>)
        \o <<JsonMember("  ", "truncated", Lit(IF so.truncated THEN "true" ELSE "false"))>>)

---------------------------------------------------------------------------
(* The part of a generation handler after its upstream await resolved.     *)

RawText(ver, response) ==
    IF ver = "2.0.0" THEN extractResponseText(response) ELSE ChatText(response)

\* Faulty variant: a response without usage is reported with zero counts.
StructuredUsage_Zeroed(ver, response) ==
    LET u == IF IsSome(response.usage) THEN Get(response.usage)
             ELSE IF ver = "2.0.0"
                  THEN [input_tokens |-> 0, output_tokens |-> 0, total_tokens |-> 0]
                  ELSE [prompt_tokens |-> 0, completion_tokens |-> 0, total_tokens |-> 0]
    IN  IF ver = "2.0.0"
        THEN Some([input_tokens |-> u.input_tokens,
                   output_tokens |-> u.output_tokens,
                   total_tokens |-> u.total_tokens])
        ELSE Some([prompt_tokens |-> u.prompt_tokens,
                   completion_tokens |-> u.completion_tokens,
                   total_tokens |-> u.total_tokens])

\* usage: response.usage ? { ... } : undefined
StructuredUsage(ver, response) ==
    IF IsSome(response.usage)
    THEN IF ver = "2.0.0"
         THEN Some([input_tokens |-> Get(response.usage).input_tokens,
                    output_tokens |-> Get(response.usage).output_tokens,
                    total_tokens |-> Get(response.usage).total_tokens])
         ELSE Some([prompt_tokens |-> Get(response.usage).prompt_tokens,
                    completion_tokens |-> Get(response.usage).completion_tokens,
                    total_tokens |-> Get(response.usage).total_tokens])
    ELSE None

\* Faulty variant: the echoed model when there is one, else the requested.
StructuredModel_EchoElseRequested(ver, request, response) ==
    IF IsSome(response.model) THEN response.model ELSE Some(request.model)

\* model: requestOptions.model (1.1.0), response.model (2.0.0)
StructuredModel(ver, request, response) ==
    IF ver = "2.0.0" THEN response.model ELSE Some(request.model)

\* Faulty variant: message_count counts the entries sent upstream, the
\* injected instruction entry included.
StructuredOutput_CountsSent(ver, p, request, response) ==
    [text |-> RawText(ver, response),
     model |-> StructuredModel(ver, request, response),
     message_count |-> IF p.tool = "converse"
                       THEN Some(Len(InstructionEntry(p)) + Len(p.messages))
                       ELSE None,
     usage |-> StructuredUsage(ver, response),
     truncated |-> FALSE]

\* structuredOutput as first built, truncated: false; message_count is
\* None where the object has no such key (generate)
StructuredOutput(ver, p, request, response) ==
    [text |-> RawText(ver, response),
     model |-> StructuredModel(ver, request, response),
     message_count |-> IF p.tool = "converse" THEN Some(Len(p.messages)) ELSE None,
     usage |-> StructuredUsage(ver, response),
     truncated |-> FALSE]

UsageFooter(ver, usage) ==
    LET m == UsageMembers(ver, usage)
    IN  IF ver = "1.0.0"
        THEN Lit("\n\n---\n**Usage:** " \o NumStr(m[1][2]) \o " prompt tokens, "
                 \o NumStr(m[2][2]) \o " completion tokens, "
                 \o NumStr(m[3][2]) \o " total")
        ELSE IF ver = "1.1.0"
        THEN Lit("\n\n---\n**Usage:** " \o NumStr(m[1][2]) \o " prompt + "
                 \o NumStr(m[2][2]) \o " completion = "
                 \o NumStr(m[3][2]) \o " total tokens")
        ELSE Lit("\n\n---\n**Usage:** " \o NumStr(m[1][2]) \o " input + "
                 \o NumStr(m[2][2]) \o " output = "
                 \o NumStr(m[3][2]) \o " total tokens")

\* textContent (output in 1.0.0): the formatted text before truncation
FormattedText(ver, p, request, response) ==
    IF ver # "1.0.0" /\ FormatOf(p) = "json"
    THEN JsonStructured(ver, StructuredOutput(ver, p, request, response))
    ELSE TConcat(RawText(ver, response),
                 IF IsSome(response.usage)
                 THEN UsageFooter(ver, Get(response.usage)) ELSE <<>>)

\* Faulty variant: the raw model text is truncated first and formatted
\* afterwards, so footer and JSON wrapping are never cut.
HandleSuccess_TruncateRaw(ver, p, request, response) ==
    IF ver = "1.0.0"
    THEN [content |-> FormattedText(ver, p, request, response),
          isError |-> FALSE,
          structuredContent |-> None]
    ELSE LET so == StructuredOutput(ver, p, request, response)
             tr == truncateResponse(ver, RawText(ver, response))
         IN  [content |-> IF FormatOf(p) = "json"
                          THEN JsonStructured(ver, [so EXCEPT !.text = tr.text])
                          ELSE TConcat(tr.text,
                                       IF IsSome(response.usage)
                                       THEN UsageFooter(ver, Get(response.usage))
                                       ELSE <<>>),
              isError |-> FALSE,
              structuredContent |-> Some([so EXCEPT !.truncated = tr.truncated])]

\* Faulty variant: the structured text is the text that was returned, cut
\* and with the notice when the formatted text was too long.
HandleSuccess_StructuredCut(ver, p, request, response) ==
    IF ver = "1.0.0"
    THEN [content |-> FormattedText(ver, p, request, response),
          isError |-> FALSE,
          structuredContent |-> None]
    ELSE LET so == StructuredOutput(ver, p, request, response)
             tr == truncateResponse(ver, FormattedText(ver, p, request, response))
         IN  [content |-> tr.text,
              isError |-> FALSE,
              structuredContent |->
                  Some([so EXCEPT !.truncated = tr.truncated,
                                  !.text = IF tr.truncated THEN tr.text ELSE @])]

\* what the handler returns when the upstream call resolved
HandleSuccess(ver, p, request, response) ==
    IF ver = "1.0.0"
    THEN [content |-> FormattedText(ver, p, request, response),
          isError |-> FALSE,
          structuredContent |-> None]
    ELSE LET so == StructuredOutput(ver, p, request, response)
             tr == truncateResponse(ver, FormattedText(ver, p, request, response))
         IN  [content |-> tr.text,
              isError |-> FALSE,
              structuredContent |-> Some([so EXCEPT !.truncated = tr.truncated])]

\* Faulty variant: the classified message is returned without the error flag.
HandleFailure_NoFlag(error) ==
    [content |-> Lit(handleOpenAIError(error)),
     isError |-> FALSE,
     structuredContent |-> None]

\* what the handler's catch block returns
HandleFailure(error) ==
    [content |-> Lit(handleOpenAIError(error)),
     isError |-> TRUE,
     structuredContent |-> None]

---------------------------------------------------------------------------
(* The gpt_status handler.                                                 *)

\* a stand-in, one UTF-16 code unit, for the check mark U+2713
CHECK_MARK == "+"

\* Number.prototype.toLocaleString of a number below a million (en-US)
LocaleStr(n) ==
    IF n < 1000 THEN NumStr(n)
    ELSE NumStr(n \div 1000) \o ","
         \o (IF n % 1000 < 10 THEN "00" ELSE IF n % 1000 < 100 THEN "0" ELSE "")
         \o NumStr(n % 1000)

\* Faulty variant: the status looks at the calls in flight and reports the
\* model of the oldest of them as the active model.
StatusObject_Live(ver, active, configured, used, key) ==
    [active_model |-> IF inflight # <<>> THEN inflight[1].request.model ELSE active,
     configured_model |-> IF Truthy(configured) THEN configured ELSE None,
     fallback_model |-> FALLBACK_MODEL,
     fallback_used |-> used,
     server_version |-> ver,
     api_key_configured |-> Truthy(key)]
    @@ (IF ver = "1.0.0" THEN NoKeys
        ELSE [default_reasoning |-> DEFAULT_REASONING_EFFORT(ver),
              character_limit |-> CHARACTER_LIMIT])
    @@ (IF ver = "2.0.0"
        THEN Key("api_type", "Responses API (v1/responses)") ELSE NoKeys)

StatusObject(ver, active, configured, used, key) ==
    [active_model |-> active,
     configured_model |-> IF Truthy(configured) THEN configured ELSE None,
     fallback_model |-> FALLBACK_MODEL,
     fallback_used |-> used,
     server_version |-> ver,
     api_key_configured |-> Truthy(key)]
    @@ (IF ver = "1.0.0" THEN NoKeys
        ELSE [default_reasoning |-> DEFAULT_REASONING_EFFORT(ver),
              character_limit |-> CHARACTER_LIMIT])
    @@ (IF ver = "2.0.0"
        THEN Key("api_type", "Responses API (v1/responses)") ELSE NoKeys)

StatusText100(st) ==
    "**GPT MCP Server Status**\n\n"
    \o "- **Active Model:** " \o st.active_model \o "\n"
    \o (IF IsSome(st.configured_model)
        THEN "- **Configured Model:** " \o Get(st.configured_model)
             \o (IF st.fallback_used
                 THEN " " \o WARNING_SIGN \o " (not found, using fallback)\n"
                 ELSE " " \o CHECK_MARK \o "\n")
        ELSE "- **Configured Model:** (not set, using default)\n")
    \o "- **Fallback Model:** " \o st.fallback_model \o "\n"
    \o "- **Server Version:** " \o st.server_version \o "\n"
    \o "- **API Key:** "
    \o (IF st.api_key_configured THEN "configured " \o CHECK_MARK
        ELSE "missing " \o WARNING_SIGN) \o "\n"

StatusTextTable(st) ==
    "# GPT MCP Server Status\n\n"
    \o "| Property | Value |\n"
    \o "|----------|-------|\n"
    \o "| **Active Model** | " \o GRAVE \o st.active_model \o GRAVE \o " |\n"
    \o (IF IsSome(st.configured_model)
        THEN "| **Configured Model** | " \o GRAVE \o Get(st.configured_model)
             \o GRAVE \o " "
             \o (IF st.fallback_used
                 THEN WARNING_SIGN \o " not found, using fallback"
                 ELSE CHECK_MARK) \o " |\n"
        ELSE "| **Configured Model** | _(not set, using default)_ |\n")
    \o "| **Fallback Model** | " \o GRAVE \o st.fallback_model \o GRAVE \o " |\n"
    \o "| **Default Reasoning** | " \o GRAVE \o st.default_reasoning \o GRAVE
    \o " (adaptive) |\n"
    \o "| **Character Limit** | " \o LocaleStr(st.character_limit) \o " |\n"
    \o "| **Server Version** | " \o st.server_version \o " |\n"
    \o (IF st.server_version = "2.0.0"
        THEN "| **API Type** | " \o st.api_type \o " |\n" ELSE "")
    \o "| **API Key** | "
    \o (IF st.api_key_configured THEN CHECK_MARK \o " configured"
        ELSE WARNING_SIGN \o " missing") \o " |\n"

HandleStatus(ver, active, configured, used, key) ==
    LET st == StatusObject(ver, active, configured, used, key)
    IN  IF ver = "1.0.0"
        THEN [content |-> Lit(StatusText100(st)), isError |-> FALSE,
              structuredContent |-> None]
        ELSE [content |-> Lit(StatusTextTable(st)), isError |-> FALSE,
              structuredContent |-> Some(st)]

---------------------------------------------------------------------------
(* Inputs: the environment, the model listings, the tool calls and the     *)
(* upstream outcomes the model draws from.                                 *)

ApiKeys == {None, Some(""), Some("sk-test")}

ConfiguredModels == {None, Some(""), Some("gpt-4.1"), Some(FALLBACK_MODEL)}

\* the identifier sets a models.list() call can resolve with
ModelListings == SUBSET {"gpt-4.1", FALLBACK_MODEL}

Params(tool, input, messages, model, fmt) ==
    [tool |-> tool, input |-> input, messages |-> messages, model |-> model,
     instructions |-> None, reasoning_effort |-> None, max_tokens |-> None,
     temperature |-> None, top_p |-> None, response_format |-> fmt]

Conversation ==
    <<[role |-> "user", content |-> "What is the capital of France?"],
      [role |-> "assistant", content |-> "The capital of France is Paris."],
      [role |-> "user", content |-> "What is its population?"]>>

\* the calls of the specification Spec
ServeParams ==
    {Params("generate", "Say hi", <<>>, m, None) : m \in {None, Some("gpt-4.1")}}
    \cup {Params("generate", "Say hi", <<>>, Some(""), Some("json"))}
    \cup {Params("converse", "", SubSeq(Conversation, 1, k), None, None) :
             k \in 1..MaxMessages}

\* calls that carry a key their tool's schema does not name
UnknownKeyParams ==
    {Params("generate", "Say hi", <<>>, None, None) @@ Key("stream", TRUE),
     Params("converse", "",
            <<[role |-> "user", content |-> "Hi", name |-> "bob"]>>,
            None, None),
     [tool |-> "status", verbose |-> TRUE]}

\* the model id a Chat Completions response echoes
CHAT_MODEL_ECHO == "gpt-5.1-2025-11-13"

ChatResponse(text, usage) ==
    [choices |-> <<text>>,
     model |-> Some(CHAT_MODEL_ECHO),
     usage |-> IF usage = None THEN None
               ELSE Some([prompt_tokens |-> usage[1][1],
                          completion_tokens |-> usage[1][2],
                          total_tokens |-> usage[1][3]])]

ResponsesResponse(parts, model, usage) ==
    [output |-> Some(<<[type |-> "message", content |-> parts]>>),
     model |-> model,
     usage |-> IF usage = None THEN None
               ELSE Some([input_tokens |-> usage[1][1],
                          output_tokens |-> usage[1][2],
                          total_tokens |-> usage[1][3]])]

OutputText(text) == [type |-> "output_text", text |-> text]

\* an upstream response of the revision's API carrying the text and usage
ResponseOf(ver, text, usage) ==
    IF ver = "2.0.0"
    THEN ResponsesResponse(<<OutputText(text)>>, Some("gpt-5.1-codex-2025"), usage)
    ELSE ChatResponse(Some(text), usage)

\* a short answer, an answer longer than the limit, and an answer within
\* the limit that the usage footer (or the JSON wrapping) carries beyond it
ServeResponses(ver) ==
    {ResponseOf(ver, Lit("Hello!"), Some(<<5, 2, 7>>)),
     ResponseOf(ver, Run("a", CHARACTER_LIMIT + 1), None),
     ResponseOf(ver, Run("a", CHARACTER_LIMIT - MaxExcess), Some(<<5, 2, 7>>))}

ApiError(status, message) ==
    [kind |-> "APIError", status |-> status, message |-> message]

\* API errors with and without a status, a plain Error and a thrown null
ServeErrors ==
    {ApiError(Some(401), "Incorrect API key provided"),
     ApiError(None, "Connection error."),
     [kind |-> "Error", status |-> None, message |-> "fetch failed"],
     [kind |-> "value", status |-> None, message |-> "null"]}

---------------------------------------------------------------------------
(* The process.                                                            *)

ProcInit ==
    /\ version \in Versions
    /\ apiKey \in ApiKeys
    /\ CONFIGURED_MODEL \in ConfiguredModels
    /\ ACTIVE_MODEL = OrElse(CONFIGURED_MODEL, FALLBACK_MODEL)
    /\ MODEL_FALLBACK_USED = FALSE
    /\ pc = "env"
    /\ exitCode = None
    /\ connected = FALSE
    /\ inflight = <<>>
    /\ last = None
    /\ listCalls = 0
    /\ valCalls = 0
    /\ valOutcome = [how |-> "none"]

Init ==
    /\ ProcInit
    /\ fnIn = None
    /\ fnOut = None

\* Module initialisation: the credential check.
EnvironmentValidation ==
    /\ pc = "env"
    /\ IF EnvironmentOk(apiKey)
       THEN pc' = "main" /\ exitCode' = exitCode
       ELSE pc' = "exited" /\ exitCode' = Some(1)
    /\ UNCHANGED <<version, apiKey, CONFIGURED_MODEL, ACTIVE_MODEL,
                   MODEL_FALLBACK_USED, connected, inflight, last, listCalls,
                   valCalls, valOutcome, fnIn, fnOut>>

\* main() calls validateConfiguredModel(), which returns at once or
\* suspends at await openai.models.list().
ValidateConfiguredModel ==
    /\ pc = "main"
    /\ valCalls' = valCalls + 1
    /\ IF NeedsValidation(CONFIGURED_MODEL)
       THEN /\ listCalls' = listCalls + 1
            /\ pc' = "listing"
            /\ valOutcome' = valOutcome
       ELSE /\ listCalls' = listCalls
            /\ pc' = "connect"
            /\ valOutcome' = [how |-> "skipped"]
    /\ UNCHANGED <<version, apiKey, CONFIGURED_MODEL, ACTIVE_MODEL,
                   MODEL_FALLBACK_USED, exitCode, connected, inflight, last,
                   fnIn, fnOut>>

\* The listing call resolves with the identifiers modelIds.
ListingResolves(modelIds) ==
    /\ pc = "listing"
    /\ LET r == ListingResolved(Get(CONFIGURED_MODEL), modelIds,
                                ACTIVE_MODEL, MODEL_FALLBACK_USED)
       IN  /\ ACTIVE_MODEL' = r.active
           /\ MODEL_FALLBACK_USED' = r.used
    /\ valOutcome' = [how |-> "resolved", ids |-> modelIds]
    /\ pc' = "connect"
    /\ UNCHANGED <<version, apiKey, CONFIGURED_MODEL, exitCode, connected,
                   inflight, last, listCalls, valCalls, fnIn, fnOut>>

\* Faulty variant: the error of the listing call is not caught and reaches
\* main().catch, which ends the process.
ListingRejects_Fatal ==
    /\ pc = "listing"
    /\ pc' = "exited"
    /\ exitCode' = Some(1)
    /\ UNCHANGED <<version, apiKey, CONFIGURED_MODEL, ACTIVE_MODEL,
                   MODEL_FALLBACK_USED, connected, inflight, last, listCalls,
                   valCalls, valOutcome, fnIn, fnOut>>

\* The listing call throws (network or authentication error).
ListingRejects ==
    /\ pc = "listing"
    /\ LET r == ListingRejected(Get(CONFIGURED_MODEL), ACTIVE_MODEL,
                                MODEL_FALLBACK_USED)
       IN  /\ ACTIVE_MODEL' = r.active
           /\ MODEL_FALLBACK_USED' = r.used
    /\ valOutcome' = [how |-> "rejected"]
    /\ pc' = "connect"
    /\ UNCHANGED <<version, apiKey, CONFIGURED_MODEL, exitCode, connected,
                   inflight, last, listCalls, valCalls, fnIn, fnOut>>

\* await server.connect(transport) resolves
Connect ==
    /\ pc = "connect"
    /\ connected' = TRUE
    /\ pc' = "running"
    /\ UNCHANGED <<version, apiKey, CONFIGURED_MODEL, ACTIVE_MODEL,
                   MODEL_FALLBACK_USED, exitCode, inflight, last, listCalls,
                   valCalls, valOutcome, fnIn, fnOut>>

\* await server.connect(transport) throws: main().catch logs the error and
\* calls process.exit(1)
ConnectRejects ==
    /\ pc = "connect"
    /\ pc' = "exited"
    /\ exitCode' = Some(1)
    /\ UNCHANGED <<version, apiKey, CONFIGURED_MODEL, ACTIVE_MODEL,
                   MODEL_FALLBACK_USED, connected, inflight, last, listCalls,
                   valCalls, valOutcome, fnIn, fnOut>>

\* A generation handler runs up to its upstream await: it reads
\* ACTIVE_MODEL, builds the request and issues the call.
StartCall(p, room) ==
    /\ ToolsReachable(connected, pc)
    /\ pc # "exited"
    /\ Len(inflight) < room
    /\ SchemaAccepts(version, p)
    /\ inflight' = Append(inflight,
                          [params |-> p,
                           seen |-> ACTIVE_MODEL,
                           valAtCall |-> valOutcome,
                           request |-> BuildRequest(version, p, ACTIVE_MODEL)])
    /\ UNCHANGED <<version, apiKey, CONFIGURED_MODEL, ACTIVE_MODEL,
                   MODEL_FALLBACK_USED, pc, exitCode, connected, last,
                   listCalls, valCalls, valOutcome, fnIn, fnOut>>

\* the gpt_generate handler, to its await
GptGenerate(p, room) == p.tool = "generate" /\ StartCall(p, room)

\* the gpt_messages handler, to its await
GptMessages(p, room) == p.tool = "converse" /\ StartCall(p, room)

\* Faulty variant: the answered call stays in flight, as if it were issued
\* again.
Without_Keep(seq, i) == seq

Without(seq, i) == SubSeq(seq, 1, i - 1) \o SubSeq(seq, i + 1, Len(seq))

\* Faulty variant: the handlers share one request object, so the handler
\* that resumes formats its answer with the parameters and request of the
\* call issued last.
UpstreamResolves_SharedRequest(i, response) ==
    /\ pc # "exited"
    /\ i \in 1..Len(inflight)
    /\ last' = Some([params |-> inflight[i].params,
                     seen |-> inflight[i].seen,
                     valAtCall |-> inflight[i].valAtCall,
                     request |-> Some(inflight[i].request),
                     outcome |-> [ok |-> TRUE, response |-> response],
                     result |-> HandleSuccess(version,
                                              inflight[Len(inflight)].params,
                                              inflight[Len(inflight)].request,
                                              response)])
    /\ inflight' = Without(inflight, i)
    /\ UNCHANGED <<version, apiKey, CONFIGURED_MODEL, ACTIVE_MODEL,
                   MODEL_FALLBACK_USED, pc, exitCode, connected, listCalls,
                   valCalls, valOutcome, fnIn, fnOut>>

\* The upstream call of the i-th suspended handler resolves.
UpstreamResolves(i, response) ==
    /\ pc # "exited"
    /\ i \in 1..Len(inflight)
    /\ last' = Some([params |-> inflight[i].params,
                     seen |-> inflight[i].seen,
                     valAtCall |-> inflight[i].valAtCall,
                     request |-> Some(inflight[i].request),
                     outcome |-> [ok |-> TRUE, response |-> response],
                     result |-> HandleSuccess(version, inflight[i].params,
                                              inflight[i].request, response)])
    /\ inflight' = Without(inflight, i)
    /\ UNCHANGED <<version, apiKey, CONFIGURED_MODEL, ACTIVE_MODEL,
                   MODEL_FALLBACK_USED, pc, exitCode, connected, listCalls,
                   valCalls, valOutcome, fnIn, fnOut>>

\* Faulty variant: a failed upstream call makes the handler switch the
\* process to the fallback model.
UpstreamRejects_FallsBack(i, error) ==
    /\ pc # "exited"
    /\ i \in 1..Len(inflight)
    /\ last' = Some([params |-> inflight[i].params,
                     seen |-> inflight[i].seen,
                     valAtCall |-> inflight[i].valAtCall,
                     request |-> Some(inflight[i].request),
                     outcome |-> [ok |-> FALSE, error |-> error],
                     result |-> HandleFailure(error)])
    /\ inflight' = Without(inflight, i)
    /\ ACTIVE_MODEL' = FALLBACK_MODEL
    /\ MODEL_FALLBACK_USED' = TRUE
    /\ UNCHANGED <<version, apiKey, CONFIGURED_MODEL, pc, exitCode, connected,
                   listCalls, valCalls, valOutcome, fnIn, fnOut>>

\* The upstream call of the i-th suspended handler throws.
UpstreamRejects(i, error) ==
    /\ pc # "exited"
    /\ i \in 1..Len(inflight)
    /\ last' = Some([params |-> inflight[i].params,
                     seen |-> inflight[i].seen,
                     valAtCall |-> inflight[i].valAtCall,
                     request |-> Some(inflight[i].request),
                     outcome |-> [ok |-> FALSE, error |-> error],
                     result |-> HandleFailure(error)])
    /\ inflight' = Without(inflight, i)
    /\ UNCHANGED <<version, apiKey, CONFIGURED_MODEL, ACTIVE_MODEL,
                   MODEL_FALLBACK_USED, pc, exitCode, connected, listCalls,
                   valCalls, valOutcome, fnIn, fnOut>>

\* The arguments of a call fail the tool's input schema: the request is
\* answered with an invalid-parameters error and the handler does not run.
InvalidCall(p) ==
    /\ ToolsReachable(connected, pc)
    /\ pc # "exited"
    /\ ~SchemaAccepts(version, p)
    /\ last' = Some([params |-> p,
                     seen |-> ACTIVE_MODEL,
                     valAtCall |-> valOutcome,
                     request |-> None,
                     outcome |-> [ok |-> FALSE, invalid |-> TRUE],
                     result |-> [invalidParams |-> TRUE]])
    /\ UNCHANGED <<version, apiKey, CONFIGURED_MODEL, ACTIVE_MODEL,
                   MODEL_FALLBACK_USED, pc, exitCode, connected, inflight,
                   listCalls, valCalls, valOutcome, fnIn, fnOut>>

\* the gpt_status handler
GptStatus ==
    /\ ToolsReachable(connected, pc)
    /\ pc # "exited"
    /\ last' = Some([params |-> [tool |-> "status"],
                     seen |-> ACTIVE_MODEL,
                     valAtCall |-> valOutcome,
                     request |-> None,
                     outcome |-> [ok |-> TRUE],
                     result |-> HandleStatus(version, ACTIVE_MODEL,
                                             CONFIGURED_MODEL,
                                             MODEL_FALLBACK_USED, apiKey)])
    /\ UNCHANGED <<version, apiKey, CONFIGURED_MODEL, ACTIVE_MODEL,
                   MODEL_FALLBACK_USED, pc, exitCode, connected, inflight,
                   listCalls, valCalls, valOutcome, fnIn, fnOut>>

Startup ==
    \/ EnvironmentValidation
    \/ ValidateConfiguredModel
    \/ \E modelIds \in ModelListings : ListingResolves(modelIds)
    \/ ListingRejects
    \/ Connect
    \/ ConnectRejects

Next ==
    \/ Startup
    \/ \E p \in ServeParams : GptGenerate(p, MaxInFlight)
    \/ \E p \in ServeParams : GptMessages(p, MaxInFlight)
    \/ GptStatus
    \/ \E p \in ServeParams \cup UnknownKeyParams : InvalidCall(p)
    \/ \E i \in 1..MaxInFlight, r \in ServeResponses(version) :
          UpstreamResolves(i, r)
    \/ \E i \in 1..MaxInFlight, e \in ServeErrors : UpstreamRejects(i, e)

Spec == Init /\ [][Next]_vars

\* Startup on its own, followed by status calls, under the scheduling the
\* runtime gives it: a startup step that can be taken is eventually taken,
\* so the credential check runs, main() is entered, the listing call
\* returns or throws and the awaited connect resolves or rejects.  Nothing
\* obliges a client to call a tool.
NextStart ==
    \/ Startup
    \/ GptStatus

FairSpec == Init /\ [][NextStart]_vars /\ WF_vars(Startup)

---------------------------------------------------------------------------
(* The pure functions on their own: a specification draws one input and   *)
(* applies the function to it, in a process that has not started.          *)

NotStarted(ver) ==
    /\ version = ver
    /\ apiKey = Some("sk-test")
    /\ CONFIGURED_MODEL = None
    /\ ACTIVE_MODEL = FALLBACK_MODEL
    /\ MODEL_FALLBACK_USED = FALSE
    /\ pc = "env"
    /\ exitCode = None
    /\ connected = FALSE
    /\ inflight = <<>>
    /\ last = None
    /\ listCalls = 0
    /\ valCalls = 0
    /\ valOutcome = [how |-> "none"]

\* the revisions that have truncateResponse
TruncateVersions == {"1.1.0", "2.0.0"}

\* lengths near zero and on both sides of CHARACTER_LIMIT
TruncateLengths ==
    (0..MaxExcess)
    \cup ((CHARACTER_LIMIT - MaxExcess)..(CHARACTER_LIMIT + MaxExcess))

TruncateTexts ==
    {TConcat(Run(c, k), tl) :
        c \in {"a", "\n"}, k \in TruncateLengths, tl \in {<<>>, Lit("xyz")}}

InitTruncate ==
    /\ \E ver \in TruncateVersions : NotStarted(ver)
    /\ fnIn \in TruncateTexts
    /\ fnOut = None

ApplyTruncate ==
    /\ fnOut = None
    /\ fnOut' = Some(truncateResponse(version, fnIn))
    /\ UNCHANGED <<procVars, fnIn>>

SpecTruncate == InitTruncate /\ [][ApplyTruncate]_vars

\* messages that hold "timeout" in some letter case, and messages that do not
TimeoutMessages == {"timeout", "Request Timeout exceeded", "Gateway TIMEOUT"}
PlainMessages == {"Bad request", "time out", "Internal server error"}

ClassifyStatuses ==
    {None} \cup {Some(st) : st \in {400, 401, 402, 403, 404, 429, 500}}

ClassifyErrors ==
    {ApiError(st, m) : st \in ClassifyStatuses,
                       m \in TimeoutMessages \cup PlainMessages}
    \cup {[kind |-> k, status |-> None, message |-> m] :
             k \in {"Error", "value"}, m \in TimeoutMessages \cup PlainMessages}

InitClassify ==
    /\ \E ver \in Versions : NotStarted(ver)
    /\ fnIn \in ClassifyErrors
    /\ fnOut = None

ApplyClassify ==
    /\ fnOut = None
    /\ fnOut' = Some(handleOpenAIError(fnIn))
    /\ UNCHANGED <<procVars, fnIn>>

SpecClassify == InitClassify /\ [][ApplyClassify]_vars

\* The request builder on its own: one call of a generation tool, with
\* arguments its schema accepts, and the active model it reads.
BuildParams(ver) ==
    {[tool |-> t,
      input |-> IF t = "generate" THEN "Say hi" ELSE "",
      messages |-> IF t = "generate" THEN <<>> ELSE SubSeq(Conversation, 1, 1),
      model |-> m, instructions |-> ins, reasoning_effort |-> eff,
      max_tokens |-> mt, temperature |-> tmp, top_p |-> tp,
      response_format |-> None] :
        t \in {"generate", "converse"},
        m \in {None, Some(""), Some("gpt-4.1")},
        ins \in {None, Some("Be brief.")},
        eff \in {None} \cup {Some(e) : e \in ReasoningEfforts(ver)},
        mt \in {None, Some(100)},
        tmp \in {None, Some(0), Some(1)},
        tp \in {None, Some(0)}}

InitBuild ==
    /\ \E ver \in Versions :
          /\ NotStarted(ver)
          /\ fnIn \in {[params |-> p, active |-> a] :
                         p \in BuildParams(ver), a \in {FALLBACK_MODEL, "gpt-4.1"}}
    /\ fnOut = None

ApplyBuild ==
    /\ fnOut = None
    /\ SchemaAccepts(version, fnIn.params)
    /\ fnOut' = Some(BuildRequest(version, fnIn.params, fnIn.active))
    /\ UNCHANGED <<procVars, fnIn>>

SpecBuild == InitBuild /\ [][ApplyBuild]_vars

\* The gpt_messages handler on its own, from accepted arguments to the
\* result of a call the upstream service answered: conversations of 1 to
\* MaxMessages messages, with instructions absent, empty and non-empty, in
\* both response formats.
MessagesParams ==
    {[Params("converse", "", SubSeq(Conversation, 1, k), None, fmt)
        EXCEPT !.instructions = ins] :
        k \in 1..MaxMessages,
        ins \in {None, Some(""), Some("Be brief.")},
        fmt \in {None, Some("json")}}

InitMessages ==
    /\ \E ver \in Versions :
          /\ NotStarted(ver)
          /\ fnIn \in {[params |-> p, active |-> FALLBACK_MODEL, response |-> r] :
                         p \in MessagesParams, r \in ServeResponses(ver)}
    /\ fnOut = None

ApplyMessages ==
    /\ fnOut = None
    /\ SchemaAccepts(version, fnIn.params)
    /\ LET request == BuildRequest(version, fnIn.params, fnIn.active)
       IN  fnOut' = Some([request |-> request,
                          result |-> HandleSuccess(version, fnIn.params, request,
                                                   fnIn.response)])
    /\ UNCHANGED <<procVars, fnIn>>

SpecMessages == InitMessages /\ [][ApplyMessages]_vars

\* The usage part of structuredOutput on its own: the same counts, or no
\* usage, reported by the upstream API of the revision and by the API of
\* the other revision, each handled by its own revision.
UsageRevisions == {"1.1.0", "2.0.0"}

OtherRevision(ver) == IF ver = "2.0.0" THEN "1.1.0" ELSE "2.0.0"

UsageInputs ==
    {None} \cup {Some(<<a, b, t>>) : a \in 0..MaxUnits, b \in 0..MaxUnits,
                                     t \in 0..MaxUnits}

InitUsage ==
    /\ \E ver \in UsageRevisions : NotStarted(ver)
    /\ fnIn \in {[usage |-> u] : u \in UsageInputs}
    /\ fnOut = None

ApplyUsage ==
    /\ fnOut = None
    /\ LET o == OtherRevision(version)
       IN  fnOut' = Some(
             [own |-> StructuredUsage(version,
                          ResponseOf(version, Lit("Hello!"), fnIn.usage)),
              other |-> StructuredUsage(o, ResponseOf(o, Lit("Hello!"), fnIn.usage))])
    /\ UNCHANGED <<procVars, fnIn>>

SpecUsage == InitUsage /\ [][ApplyUsage]_vars

\* The part of the gpt_generate and gpt_messages handlers after the
\* upstream call resolved, on its own: calls in both response formats, with
\* and without a model of the caller, answered by responses that are short,
\* empty, longer than the limit or just below it, with and without usage,
\* with and without a model id echoed back.
AnswerParams ==
    {Params(t, IF t = "generate" THEN "Say hi" ELSE "",
            IF t = "generate" THEN <<>> ELSE SubSeq(Conversation, 1, 1), m, fmt) :
        t \in {"generate", "converse"},
        m \in {None, Some("gpt-4.1")},
        fmt \in {None, Some("json")}}

AnswerTexts ==
    {Lit(""), Lit("Hello!"), Run("a", CHARACTER_LIMIT - MaxExcess),
     Run("a", CHARACTER_LIMIT + 1)}

AnswerResponses(ver) ==
    {[ResponseOf(ver, text, usage) EXCEPT !.model = m] :
        text \in AnswerTexts,
        usage \in {None, Some(<<5, 2, 7>>)},
        m \in {None, Some(CHAT_MODEL_ECHO)}}

InitAnswer ==
    /\ \E ver \in Versions :
          /\ NotStarted(ver)
          /\ fnIn \in {[params |-> p, active |-> FALLBACK_MODEL, response |-> r] :
                         p \in {q \in AnswerParams : SchemaAccepts(ver, q)},
                         r \in AnswerResponses(ver)}
    /\ fnOut = None

ApplyAnswer ==
    /\ fnOut = None
    /\ LET request == BuildRequest(version, fnIn.params, fnIn.active)
       IN  fnOut' = Some(
             [request |-> request,
              textContent |-> FormattedText(version, fnIn.params, request,
                                            fnIn.response),
              result |-> HandleSuccess(version, fnIn.params, request,
                                       fnIn.response)])
    /\ UNCHANGED <<procVars, fnIn>>

SpecAnswer == InitAnswer /\ [][ApplyAnswer]_vars

\* extractResponseText on its own: a response whose output is absent or a
\* list of up to MaxItems items, each a reasoning item or a message of up to
\* MaxParts parts; a part is an output_text with a text, an output_text
\* with an empty text, or a refusal.  The text of a part names its place
\* (item i, part j), so that order and separators show in the result.
PartKinds == {"text", "empty", "refusal"}

PartAt(kind, i, j) ==
    IF kind = "refusal" THEN [type |-> "refusal", text |-> Lit("no")]
    ELSE OutputText(IF kind = "empty" THEN Lit("")
                    ELSE Lit("i" \o ToString(i) \o "p" \o ToString(j)))

\* the shape of an item: a reasoning item, or a message with the kinds of
\* its parts
ItemShapes ==
    {[type |-> "reasoning", kinds |-> <<>>]}
    \cup {[type |-> "message", kinds |-> kinds] :
             kinds \in UNION {[1..m -> PartKinds] : m \in 0..MaxParts}}

\* the item of a shape at place i of the output list
ItemAt(shape, i) ==
    [type |-> shape.type,
     content |-> [j \in DOMAIN shape.kinds |-> PartAt(shape.kinds[j], i, j)]]

\* response.output: absent, or a list of up to MaxItems items
InitExtract ==
    /\ NotStarted("2.0.0")
    /\ \/ fnIn = [output |-> None, model |-> Some(CHAT_MODEL_ECHO), usage |-> None]
       \/ \E n \in 0..MaxItems :
             \E shapes \in [1..n -> ItemShapes] :
                fnIn = [output |-> Some([i \in 1..n |-> ItemAt(shapes[i], i)]),
                        model |-> Some(CHAT_MODEL_ECHO), usage |-> None]
    /\ fnOut = None

ApplyExtract ==
    /\ fnOut = None
    /\ fnOut' = Some(extractResponseText(fnIn))
    /\ UNCHANGED <<procVars, fnIn>>

SpecExtract == InitExtract /\ [][ApplyExtract]_vars

---------------------------------------------------------------------------
(* Properties.  Started holds once validateConfiguredModel has returned;   *)
(* the three predicates below say how the listing call ended for a         *)
(* non-empty override.                                                     *)

Started == valOutcome.how # "none"

ListedWithout ==
    /\ Truthy(CONFIGURED_MODEL)
    /\ valOutcome.how = "resolved"
    /\ Get(CONFIGURED_MODEL) \notin valOutcome.ids

ListedWith ==
    /\ Truthy(CONFIGURED_MODEL)
    /\ valOutcome.how = "resolved"
    /\ Get(CONFIGURED_MODEL) \in valOutcome.ids

ListingFailed ==
    /\ Truthy(CONFIGURED_MODEL)
    /\ valOutcome.how = "rejected"

\* the last call served was a generation call (generate or converse) whose
\* upstream call resolved
LastSucceeded ==
    /\ last # None
    /\ Get(last).params.tool \in {"generate", "converse"}
    /\ Get(last).outcome.ok

LastStatus ==
    /\ last # None
    /\ Get(last).params.tool = "status"
    /\ Get(last).outcome.ok

\* the characters of a short rope, as one string
RECURSIVE Repeat(_, _)
Repeat(str, k) ==
    IF k <= Len(str) THEN SubSeq(str, 1, k)
    ELSE str \o Repeat(str, k - Len(str))

RECURSIVE TString(_)
TString(t) ==
    IF t = <<>> THEN "" ELSE Repeat(t[1].v, t[1].n) \o TString(Tail(t))

\* the rope without its first k characters
RECURSIVE TDrop(_, _)
TDrop(t, k) ==
    IF k <= 0 \/ t = <<>> THEN t
    ELSE IF t[1].n <= k THEN TDrop(Tail(t), k - t[1].n)
    ELSE LET str == t[1].v
             r == k % Len(str)
         IN  <<[v |-> SubSeq(str, r + 1, Len(str)) \o SubSeq(str, 1, r),
                n |-> t[1].n - k]>> \o Tail(t)

\* C1: when a non-empty override is configured and the listing call
\* succeeds with a set that does not contain it, then after startup the
\* active model is the fallback model and the fallback flag is true, for
\* every configured id and every listed set.
C1_AbsentOverrideFallsBack ==
    ListedWithout =>
        (ACTIVE_MODEL = FALLBACK_MODEL /\ MODEL_FALLBACK_USED = TRUE)

C1_Witness ==
    /\ pc = "running"
    /\ ListedWithout
    /\ CONFIGURED_MODEL = Some("gpt-4.1")
    /\ valOutcome.ids = {FALLBACK_MODEL}
    /\ ACTIVE_MODEL = FALLBACK_MODEL
    /\ MODEL_FALLBACK_USED

\* C2: when a non-empty override is configured and the listing call
\* succeeds with a set that contains it, then after startup the active
\* model is the configured model and the fallback flag is false.
C2_ListedOverrideIsActive ==
    ListedWith =>
        (ACTIVE_MODEL = Get(CONFIGURED_MODEL) /\ MODEL_FALLBACK_USED = FALSE)

C2_Witness ==
    /\ pc = "running"
    /\ ListedWith
    /\ CONFIGURED_MODEL = Some("gpt-4.1")
    /\ ACTIVE_MODEL = "gpt-4.1"
    /\ ~MODEL_FALLBACK_USED

\* C3: when the override is absent or empty the listing function is never
\* called, and after startup the active model is the fallback model, the
\* fallback flag is false and the status tool reports the configured model
\* as null (in its text: as not set).
C3_NoOverrideNoListing ==
    ~Truthy(CONFIGURED_MODEL) =>
        /\ listCalls = 0
        /\ pc # "listing"
        /\ Started =>
              /\ ACTIVE_MODEL = FALLBACK_MODEL
              /\ MODEL_FALLBACK_USED = FALSE
              /\ valOutcome.how = "skipped"
        /\ LastStatus =>
              LET r == Get(last).result
              IN  /\ includes(TString(r.content), "(not set, using default)")
                  /\ IsSome(r.structuredContent) =>
                        Get(r.structuredContent).configured_model = None

C3_Witness ==
    /\ CONFIGURED_MODEL = Some("")
    /\ pc = "running"
    /\ listCalls = 0
    /\ LastStatus
    /\ IsSome(Get(last).result.structuredContent)

\* C4: when a non-empty override is configured and the listing call itself
\* throws, then from that moment on the active model is the configured
\* model and the fallback flag is false, and startup goes on instead of
\* aborting: the step that handles the failure leaves the process alive
\* and about to connect its transport.
C4_ListingFailureKeepsOverride ==
    /\ [](ListingFailed =>
            /\ ACTIVE_MODEL = Get(CONFIGURED_MODEL)
            /\ MODEL_FALLBACK_USED = FALSE
            /\ pc \in {"connect", "running", "exited"})
    /\ [][(~ListingFailed /\ ListingFailed') =>
            (pc' = "connect" /\ exitCode' = None)]_vars

C4_Witness ==
    /\ ListingFailed
    /\ pc = "running"
    /\ connected
    /\ ACTIVE_MODEL = "gpt-4.1"
    /\ ~MODEL_FALLBACK_USED

\* C5: in every reachable state (during and after startup, after any
\* sequence of tool calls) the fallback flag being true implies that the
\* active model is the fallback model, that the configured id is non-empty
\* and that validation listed the models and did not find it.
C5_FallbackFlagInvariant ==
    MODEL_FALLBACK_USED =>
        /\ ACTIVE_MODEL = FALLBACK_MODEL
        /\ Truthy(CONFIGURED_MODEL)
        /\ valOutcome.how = "resolved"
        /\ Get(CONFIGURED_MODEL) \notin valOutcome.ids

C5_Witness ==
    /\ MODEL_FALLBACK_USED
    /\ LastSucceeded
    /\ Len(inflight) > 0
    /\ Get(last).seen = FALLBACK_MODEL

\* a call record was taken after validation had finished, in a connected
\* process, and the active model it read is still the active model
ServedAfterValidation(call) ==
    /\ call.valAtCall.how # "none"
    /\ call.seen = ACTIVE_MODEL
    /\ valCalls = 1
    /\ connected

\* C6: model validation runs once per process (never twice, and once in
\* every process that gets past the credential check), no tool handler
\* (generate, converse, status) runs before it has finished on its success
\* or its failure path, and no tool call observes an active model that
\* validation then replaces.
C6_ValidationOnceBeforeTools ==
    /\ valCalls <= 1
    /\ pc \in {"listing", "connect", "running"} => valCalls = 1
    /\ valCalls = 0 => valOutcome.how = "none"
    /\ \A i \in 1..Len(inflight) : ServedAfterValidation(inflight[i])
    /\ last # None => ServedAfterValidation(Get(last))

C6_Witness ==
    /\ ListedWithout
    /\ LastStatus
    /\ Len(inflight) > 0
    /\ inflight[1].seen = FALLBACK_MODEL
    /\ Get(last).seen = FALLBACK_MODEL
    /\ valCalls = 1

\* C7: if the API credential is absent or empty at process start, the
\* process exits with a non-zero code before the listing call is made and
\* before any tool is reachable, and no tool call is ever served.
C7_MissingCredentialIsFatal ==
    ~Truthy(apiKey) =>
        /\ pc \in {"env", "exited"}
        /\ pc = "exited" => (exitCode # None /\ Get(exitCode) # 0)
        /\ listCalls = 0
        /\ valCalls = 0
        /\ ~connected
        /\ inflight = <<>>
        /\ last = None

C7_Witness ==
    /\ apiKey = Some("")
    /\ Truthy(CONFIGURED_MODEL)
    /\ pc = "exited"
    /\ exitCode = Some(1)
    /\ listCalls = 0

\* C8: truncateResponse returns a text of at most CHARACTER_LIMIT characters
\* unchanged with truncated false; for a longer text it returns truncated
\* true and a text made of exactly the first CHARACTER_LIMIT characters of
\* the input followed by a notice that mentions the length of the input
\* and the limit.
C8_TruncateContract ==
    fnOut # None =>
        LET t == fnIn
            r == Get(fnOut)
        IN  IF TLen(t) <= CHARACTER_LIMIT
            THEN r.text = t /\ r.truncated = FALSE
            ELSE /\ r.truncated = TRUE
                 /\ TLen(TSlice(t, CHARACTER_LIMIT)) = CHARACTER_LIMIT
                 /\ TSlice(r.text, CHARACTER_LIMIT) = TSlice(t, CHARACTER_LIMIT)
                 /\ LET notice == TString(TDrop(r.text, CHARACTER_LIMIT))
                    IN  /\ includes(notice, NumStr(TLen(t)))
                        /\ includes(notice, NumStr(CHARACTER_LIMIT))
                        /\ includes(notice, "truncated")

C8_Witness ==
    /\ fnOut # None
    /\ TLen(fnIn) = CHARACTER_LIMIT + 1
    /\ Len(fnIn) = 2
    /\ Get(fnOut).truncated
    /\ TLen(Get(fnOut).text) > CHARACTER_LIMIT

C10_StatusDecidesCategory ==
    (fnOut # None /\ fnIn.kind = "APIError") =>
        LET out == Get(fnOut)
            st == fnIn.status
        IN  /\ st = Some(401) => (out = MsgInvalidKey
                                   /\ includes(out, "Invalid API key"))
            /\ st = Some(402) => (out = MsgQuota
                                   /\ includes(out, "quota exceeded"))
            /\ st = Some(403) => (out = MsgPermission
                                   /\ includes(out, "Permission denied"))
            /\ st = Some(404) => (out = MsgModelNotFound
                                   /\ includes(out, "Model not found"))
            /\ st = Some(429) => (out = MsgRateLimit
                                   /\ includes(out, "Rate limit exceeded"))
            /\ (/\ IsSome(st)
                /\ Get(st) \notin {401, 402, 403, 404, 429}
                /\ fnIn.message \in PlainMessages)
               => out = "Error: OpenAI API error (" \o NumStr(Get(st)) \o "): "
                          \o fnIn.message

C10_Witness ==
    /\ fnOut # None
    /\ fnIn.kind = "APIError"
    /\ fnIn.status = Some(429)
    /\ fnIn.message = "Gateway TIMEOUT"
    /\ Get(fnOut) = MsgRateLimit

\* the statuses handleOpenAIError has a message of their own for
ClassifiedStatuses == {Some(401), Some(402), Some(403), Some(404), Some(429)}

\* an error was classified that carries none of these statuses and whose
\* message holds "timeout" in some letter case
TimeoutCase ==
    /\ fnOut # None
    /\ fnIn.status \notin ClassifiedStatuses
    /\ fnIn.message \in TimeoutMessages

\* C11 as stated: every error without status 401, 402, 403, 404 or 429
\* whose message contains "timeout" in any letter case is classified as
\* "request timed out", API error, plain exception or other value alike:
\* the rule comes before the generic API error message and before the
\* "Error: <message>" passthrough.
C11_TimeoutBeforePassthrough ==
    TimeoutCase => Get(fnOut) = MsgTimeout

\* C11 as the code has it: the message is searched for "timeout" (in any
\* letter case) only inside the branch for upstream API errors, after the
\* five statuses and before the generic API error message.  A plain
\* exception is passed through as "Error: <message>" and any other thrown
\* value as "Error: Unexpected error occurred: <value>", whether or not the
\* text contains "timeout".
C11_TimeoutRuleForApiErrors ==
    TimeoutCase =>
        LET out == Get(fnOut)
        IN  /\ fnIn.kind = "APIError" =>
                  (out = MsgTimeout /\ includes(out, "Request timed out"))
            /\ fnIn.kind = "Error" => out = "Error: " \o fnIn.message
            /\ fnIn.kind = "value" =>
                  out = "Error: Unexpected error occurred: " \o fnIn.message

C11_Witness ==
    /\ TimeoutCase
    /\ fnIn.kind = "APIError"
    /\ fnIn.status = Some(500)
    /\ fnIn.message = "Gateway TIMEOUT"
    /\ Get(fnOut) = MsgTimeout

\* the last call served was a generation call whose upstream call threw
LastFailed ==
    /\ last # None
    /\ Get(last).params.tool \in {"generate", "converse"}
    /\ ~Get(last).outcome.ok
    /\ "error" \in DOMAIN Get(last).outcome

\* the rope stands for a string that begins with "Error: "
IsErrorText(t) ==
    LET str == TString(t)
    IN  Len(str) > 7 /\ SubSeq(str, 1, 7) = "Error: "

C13_UpstreamFailureIsToolResult ==
    /\ [](LastFailed =>
            LET r == Get(last).result
                error == Get(last).outcome.error
            IN  /\ r.isError = TRUE
                /\ IsErrorText(r.content)
                /\ r.content = Lit(handleOpenAIError(error))
                /\ error.status = Some(401) =>
                      includes(TString(r.content), "Invalid API key")
                /\ pc = "running" /\ exitCode = None
                /\ ToolsReachable(connected, pc))
    /\ [][(LastFailed' /\ last' # last) =>
            /\ pc' = pc /\ connected' = connected /\ exitCode' = exitCode
            /\ \E i \in 1..Len(inflight) :
                  /\ inflight[i].params = Get(last').params
                  /\ inflight' = Without(inflight, i)]_vars

C13_Witness ==
    /\ LastFailed
    /\ Get(last).outcome.error.status = Some(401)
    /\ Get(last).result.isError
    /\ includes(TString(Get(last).result.content), "Invalid API key")
    /\ Len(inflight) > 0

\* the last call served got as far as its handler's upstream call
LastAnswered == LastSucceeded \/ LastFailed

\* C14: no internal retries.  Startup issues at most one listing call.  An
\* upstream generation call comes into flight only with a new invocation,
\* one call for one invocation; when it is answered, with a response or
\* with an error, it leaves the calls in flight and no other call is issued
\* in its place.  A status call, and a call refused for its parameters,
\* carry no request and change nothing in flight.
C14_NoInternalRetries ==
    /\ [](listCalls <= 1)
    /\ []((last # None /\ ~LastAnswered) => Get(last).request = None)
    /\ [][/\ listCalls' # listCalls => (pc = "main" /\ listCalls' = 1)
          /\ Len(inflight') <= Len(inflight) + 1
          /\ Len(inflight') = Len(inflight) + 1 =>
                (last' = last /\ SubSeq(inflight', 1, Len(inflight)) = inflight)
          /\ last' # last =>
                IF LastAnswered'
                THEN \E i \in 1..Len(inflight) :
                        /\ Get(last').request = Some(inflight[i].request)
                        /\ inflight' = SubSeq(inflight, 1, i - 1)
                                         \o SubSeq(inflight, i + 1, Len(inflight))
                ELSE inflight' = inflight]_vars

C14_Witness ==
    /\ LastFailed
    /\ inflight = <<>>
    /\ listCalls = 1
    /\ Get(last).outcome.error.kind = "Error"

\* the arguments carry a parameter that the schema of their tool, in the
\* revision ver, does not have: a key of the arguments, a key of one of the
\* messages, or response_format in revision 1.0.0
CarriesUnknown(ver, p) ==
    IF p.tool = "status" THEN DOMAIN p # {"tool"}
    ELSE \/ \E k \in DOMAIN p : k \notin ParamKeys
         \/ \E i \in 1..Len(p.messages) :
               \E k \in DOMAIN p.messages[i] : k \notin {"role", "content"}
         \/ (ver = "1.0.0" /\ p.response_format # None)

\* the last call was refused for its arguments
LastInvalid == last # None /\ "invalid" \in DOMAIN Get(last).outcome

\* C15: a generate, converse or status call that carries a parameter not in
\* its tool's schema (a key inside a message included) is refused as a
\* validation error: no handler runs for it, so no upstream call is made
\* and no request is built, its answer is not a result of the error
\* classifier, and refusing it changes nothing in the process.
C15_UnknownParameterRejected ==
    /\ [](\A i \in 1..Len(inflight) :
             ~CarriesUnknown(version, inflight[i].params))
    /\ []((last # None /\ CarriesUnknown(version, Get(last).params)) =>
             /\ LastInvalid
             /\ Get(last).request = None
             /\ DOMAIN Get(last).result = {"invalidParams"})
    /\ [][(last' # last /\ CarriesUnknown(version, Get(last').params)) =>
             UNCHANGED <<version, apiKey, CONFIGURED_MODEL, ACTIVE_MODEL,
                         MODEL_FALLBACK_USED, pc, exitCode, connected,
                         inflight, listCalls, valCalls, valOutcome>>]_vars

C15_Witness ==
    /\ LastInvalid
    /\ Get(last).params.tool = "converse"
    /\ CarriesUnknown(version, Get(last).params)
    /\ Len(inflight) > 0
    /\ version = "2.0.0"

\* the key of the upstream request that holds the maximum of output tokens
MaxTokensKey(ver) == IF ver = "2.0.0" THEN "max_output_tokens" ELSE "max_tokens"

\* the request has the key exactly when the caller supplied the parameter,
\* and then with the supplied value
KeyIffSupplied(req, key, supplied) ==
    /\ (key \in DOMAIN req) <=> IsSome(supplied)
    /\ IsSome(supplied) => req[key] = supplied

\* C16 as stated: for each of the maximum of output tokens, temperature and
\* top_p, the built request has the key if and only if the caller supplied
\* the parameter, and then with exactly the supplied value (a supplied 0
\* included); when it was not supplied there is no such key at all.
C16_OmittedUnlessSupplied ==
    fnOut # None =>
        LET p == fnIn.params
            req == Get(fnOut)
        IN  /\ KeyIffSupplied(req, MaxTokensKey(version), p.max_tokens)
            /\ KeyIffSupplied(req, "temperature", p.temperature)
            /\ KeyIffSupplied(req, "top_p", p.top_p)

\* the request carries the caller's model when one was supplied and the
\* active model otherwise
ModelSent(p, req) ==
    req.model = IF p.model # None THEN Get(p.model) ELSE ACTIVE_MODEL

\* C17: the model sent upstream by a generate or converse call is the
\* caller's model parameter when one is supplied, used as given, and
\* otherwise the active model fixed at startup; this is so as well when
\* startup fell back to the fallback model.
C17_CallerModelElseActive ==
    /\ \A i \in 1..Len(inflight) :
          ModelSent(inflight[i].params, inflight[i].request)
    /\ LastAnswered => ModelSent(Get(last).params, Get(Get(last).request))

C17_Witness ==
    /\ MODEL_FALLBACK_USED
    /\ CONFIGURED_MODEL = Some("gpt-4.1")
    /\ LastSucceeded
    /\ Get(last).params.model = Some("gpt-4.1")
    /\ Get(Get(last).request).model = "gpt-4.1"
    /\ Len(inflight) > 0
    /\ inflight[1].params.model = None
    /\ inflight[1].request.model = FALLBACK_MODEL


\* the reasoning effort a built request asks for: the value of its
\* reasoning_effort key (1.1.0) or of reasoning.effort (2.0.0); a 2.0.0
\* request without the reasoning key is that revision's way of asking for
\* "none"; None when the request says nothing about reasoning
RequestEffort(ver, req) ==
    IF "reasoning_effort" \in DOMAIN req THEN Some(req.reasoning_effort)
    ELSE IF "reasoning" \in DOMAIN req THEN Some(req.reasoning.effort)
    ELSE IF ver = "2.0.0" THEN Some("none")
    ELSE None

\* C18 as stated: the reasoning effort of the upstream request of a generate
\* or converse call is the caller's reasoning_effort when one is supplied,
\* so that a supplied value is never ignored, and the server's default
\* reasoning effort otherwise (in the revisions that define a default).
C18_EffortCallerElseDefault ==
    fnOut # None =>
        LET p == fnIn.params
            eff == RequestEffort(version, Get(fnOut))
        IN  /\ p.reasoning_effort # None => eff = p.reasoning_effort
            /\ (p.reasoning_effort = None /\ version # "1.0.0") =>
                   eff = Some(DEFAULT_REASONING_EFFORT(version))


\* the effort a call asks for, by the rule of the revisions that resolve
\* one: the caller's value, else the revision's default
EffortAsked(ver, p) ==
    IF p.reasoning_effort # None THEN Get(p.reasoning_effort)
    ELSE DEFAULT_REASONING_EFFORT(ver)

\* the request says nothing about reasoning, under either key
NoReasoningField(req) ==
    /\ "reasoning" \notin DOMAIN req
    /\ "reasoning_effort" \notin DOMAIN req

\* C19 as stated, for the revisions that resolve an effective effort
\* (1.1.0 and 2.0.0): when the effective effort is "none" the upstream
\* request has no reasoning field at all, and for every other value the
\* field is present with that value.
C19_NoneSuppressesField ==
    (fnOut # None /\ version # "1.0.0") =>
        LET req == Get(fnOut)
            eff == EffortAsked(version, fnIn.params)
        IN  IF eff = "none" THEN NoReasoningField(req)
            ELSE RequestEffort(version, req) = Some(eff) /\ ~NoReasoningField(req)

\* C19 amended: only revision 2.0.0 leaves the field out for "none", and
\* sends reasoning.effort with the effective value otherwise; revision 1.1.0
\* always sends reasoning_effort with the effective value, the value "none"
\* included.
C19_NoneSuppressedIn200Only ==
    (fnOut # None /\ version # "1.0.0") =>
        LET req == Get(fnOut)
            eff == EffortAsked(version, fnIn.params)
        IN  IF version = "2.0.0"
            THEN /\ "reasoning_effort" \notin DOMAIN req
                 /\ IF eff = "none" THEN "reasoning" \notin DOMAIN req
                    ELSE /\ "reasoning" \in DOMAIN req
                         /\ req.reasoning = [effort |-> eff]
            ELSE /\ "reasoning" \notin DOMAIN req
                 /\ "reasoning_effort" \in DOMAIN req
                 /\ req.reasoning_effort = eff

C19_Witness ==
    /\ version = "2.0.0"
    /\ fnOut # None
    /\ fnIn.params.reasoning_effort = Some("none")
    /\ fnIn.params.tool = "converse"
    /\ NoReasoningField(Get(fnOut))


\* the call was a converse call whose result carries a structured part
StructuredConverse ==
    /\ fnOut # None
    /\ fnIn.params.tool = "converse"
    /\ Get(fnOut).result.structuredContent # None

\* the entries the built request sends upstream: the chat messages (1.x),
\* or the input items plus the instructions field when present (2.0.0)
EntriesSent(req) ==
    IF "messages" \in DOMAIN req THEN Len(req.messages)
    ELSE Len(req.input.items) + (IF "instructions" \in DOMAIN req THEN 1 ELSE 0)

\* C20: for every successful converse call whose result has a structured
\* part, message_count in it equals the number of messages the caller
\* supplied, whether or not an instruction entry was added to the upstream
\* request.
C20_MessageCountIsCallerCount ==
    StructuredConverse =>
        /\ ~Get(fnOut).result.isError
        /\ Get(Get(fnOut).result.structuredContent).message_count
              = Some(Len(fnIn.params.messages))

C20_Witness ==
    /\ StructuredConverse
    /\ version = "1.1.0"
    /\ Len(fnIn.params.messages) = MaxMessages
    /\ EntriesSent(Get(fnOut).request) = MaxMessages + 1
    /\ Get(Get(fnOut).result.structuredContent).message_count = Some(MaxMessages)


\* the three counts of a usage object of either naming, input first
UsageCounts(u) ==
    IF "input_tokens" \in DOMAIN u
    THEN <<u.input_tokens, u.output_tokens, u.total_tokens>>
    ELSE <<u.prompt_tokens, u.completion_tokens, u.total_tokens>>

\* the keys of the usage object in a revision's structured result
UsageKeys(ver) ==
    IF ver = "2.0.0" THEN {"input_tokens", "output_tokens", "total_tokens"}
    ELSE {"prompt_tokens", "completion_tokens", "total_tokens"}

\* C21 as stated: an upstream response with usage in the prompt/completion
\* naming and an equivalent one in the input/output naming give results
\* with identical usage, one shape with the same values; without upstream
\* usage the result has no usage.
C21_UsageIdenticalInOneShape ==
    fnOut # None =>
        /\ Get(fnOut).own = Get(fnOut).other
        /\ fnIn.usage = None => Get(fnOut).own = None

\* C21 amended: the two results carry the same three counts, each under
\* the key names of its own upstream API (prompt_tokens, completion_tokens,
\* total_tokens or input_tokens, output_tokens, total_tokens); without
\* upstream usage neither result has a usage, rather than zero counts.
C21_UsageCountsCarriedOver ==
    fnOut # None =>
        LET own == Get(fnOut).own
            other == Get(fnOut).other
        IN  IF fnIn.usage = None THEN own = None /\ other = None
            ELSE /\ own # None /\ other # None
                 /\ DOMAIN Get(own) = UsageKeys(version)
                 /\ DOMAIN Get(other) = UsageKeys(OtherRevision(version))
                 /\ UsageCounts(Get(own)) = Get(fnIn.usage)
                 /\ UsageCounts(Get(other)) = Get(fnIn.usage)

C21_Witness ==
    /\ fnOut # None
    /\ version = "1.1.0"
    /\ fnIn.usage = Some(<<MaxUnits, 1, 0>>)
    /\ Get(Get(fnOut).own).prompt_tokens = MaxUnits
    /\ Get(Get(fnOut).other).input_tokens = MaxUnits


\* a call answered by the upstream service, in a revision that returns a
\* structured result
AnsweredStructured ==
    /\ fnOut # None
    /\ Get(fnOut).result.structuredContent # None

\* the model field of the structured result, None when it is undefined
ModelUsed == Get(Get(fnOut).result.structuredContent).model

\* C22 as stated: the model of the result of a successful generate or
\* converse call is the model id the upstream response echoes whenever it
\* carries one, and the requested model only when it does not.
C22_ModelEchoedElseRequested ==
    AnsweredStructured =>
        ModelUsed = IF fnIn.response.model # None THEN fnIn.response.model
                    ELSE Some(Get(fnOut).request.model)

\* C22 amended: revision 1.1.0 always reports the requested model, whatever
\* the response echoes; revision 2.0.0 always reports the model of the
\* response, and no model at all when the response carries none.
C22_ModelByRevision ==
    AnsweredStructured =>
        IF version = "2.0.0" THEN ModelUsed = fnIn.response.model
        ELSE ModelUsed = Some(Get(fnOut).request.model)

C22_Witness ==
    /\ AnsweredStructured
    /\ version = "1.1.0"
    /\ fnIn.params.model = Some("gpt-4.1")
    /\ fnIn.response.model = Some(CHAT_MODEL_ECHO)
    /\ ModelUsed = Some("gpt-4.1")


\* the text of a status result for the current module state
StatusTextNow ==
    LET st == StatusObject(version, ACTIVE_MODEL, CONFIGURED_MODEL,
                           MODEL_FALLBACK_USED, apiKey)
    IN  Lit(IF version = "1.0.0" THEN StatusText100(st) ELSE StatusTextTable(st))

\* C23: a status call makes no upstream call and changes no state, and any
\* two status calls made after startup return identical results, whatever
\* generate or converse calls happen before, between or along with them:
\* every status result reports the module state of the moment (active,
\* configured and fallback model, fallback flag, credential, version) and
\* is no error; the step of a status call changes nothing but the record of
\* the last result, the calls in flight and the listing count included;
\* once a status result exists the values it reports never change; and a
\* status result that follows a status result is equal to it.
C23_StatusReadOnlyIdempotent ==
    /\ [](LastStatus =>
            LET r == Get(last).result
            IN  /\ ~r.isError
                /\ r.content = StatusTextNow
                /\ IsSome(r.structuredContent) =>
                      LET sc == Get(r.structuredContent)
                      IN  /\ sc.active_model = ACTIVE_MODEL
                          /\ sc.configured_model =
                               (IF Truthy(CONFIGURED_MODEL)
                                THEN CONFIGURED_MODEL ELSE None)
                          /\ sc.fallback_model = FALLBACK_MODEL
                          /\ sc.fallback_used = MODEL_FALLBACK_USED
                          /\ sc.api_key_configured = Truthy(apiKey)
                          /\ sc.server_version = version)
    /\ [][/\ (LastStatus' /\ last' # last) =>
                UNCHANGED <<version, apiKey, CONFIGURED_MODEL, ACTIVE_MODEL,
                            MODEL_FALLBACK_USED, pc, exitCode, connected,
                            inflight, listCalls, valCalls, valOutcome>>
          /\ LastStatus =>
                UNCHANGED <<version, apiKey, CONFIGURED_MODEL, ACTIVE_MODEL,
                            MODEL_FALLBACK_USED>>
          /\ (LastStatus /\ LastStatus') =>
                Get(last').result = Get(last).result]_vars

C23_Witness ==
    /\ LastStatus
    /\ MODEL_FALLBACK_USED
    /\ Len(inflight) = MaxInFlight
    /\ inflight[1].request.model # ACTIVE_MODEL
    /\ Get(last).valAtCall.how # "none"


\* a rope with each long periodic piece shortened by whole periods, so that
\* it has the same substrings of length up to k as the rope itself
RECURSIVE TSqueeze(_, _)
TSqueeze(t, k) ==
    IF t = <<>> THEN <<>>
    ELSE LET p == t[1]
             w == Len(p.v)
         IN  <<IF p.n <= k + 2 * w THEN p
               ELSE [v |-> p.v, n |-> p.n - w * ((p.n - k - w) \div w)]>>
             \o TSqueeze(Tail(t), k)

\* text.includes(sub) for a text of any length
TIncludes(t, sub) == includes(TString(TSqueeze(t, Len(sub))), sub)

\* a call in JSON format answered by the upstream service, in a revision
\* that has the JSON format
AnsweredJson ==
    /\ AnsweredStructured
    /\ FormatOf(fnIn.params) = "json"

\* the formatted text was longer than the limit, so the returned text is cut
WasCut == TLen(Get(fnOut).textContent) > CHARACTER_LIMIT

\* C24 as stated: in JSON format the truncated field inside the returned
\* JSON text is true exactly when the returned text was cut at the character
\* limit, and it equals the truncated flag of the structured result of the
\* same call.
C24_JsonTruncatedTellsTruth ==
    AnsweredJson =>
        LET returned == Get(fnOut).result.content
            flag == Get(Get(fnOut).result.structuredContent).truncated
            saysTrue == TIncludes(returned, "\"truncated\": true")
            saysFalse == TIncludes(returned, "\"truncated\": false")
        IN  /\ saysTrue <=> WasCut
            /\ saysTrue <=> flag
            /\ saysFalse <=> ~flag


\* the awaited connect rejected after validation had finished
ConnectFailed == pc = "exited" /\ Started

RECURSIVE OutputTextsOf(_)
OutputTextsOf(content) ==
    IF content = <<>> THEN <<>>
    ELSE (IF content[1].type = "output_text" /\ TLen(content[1].text) > 0
          THEN <<TString(content[1].text)>> ELSE <<>>)
         \o OutputTextsOf(Tail(content))

\* the strings of a list put together with sep between neighbours
RECURSIVE Joined(_, _)
Joined(strs, sep) ==
    IF strs = <<>> THEN ""
    ELSE IF Len(strs) = 1 THEN strs[1]
    ELSE strs[1] \o sep \o Joined(Tail(strs), sep)

\* per message item that has any output text: its texts with no separator
RECURSIVE TextPerItem(_)
TextPerItem(output) ==
    IF output = <<>> THEN <<>>
    ELSE (IF output[1].type = "message" /\ OutputTextsOf(output[1].content) # <<>>
          THEN <<Joined(OutputTextsOf(output[1].content), "")>> ELSE <<>>)
         \o TextPerItem(Tail(output))

\* the output texts of all message items in one list, item after item
RECURSIVE AllOutputTexts(_)
AllOutputTexts(output) ==
    IF output = <<>> THEN <<>>
    ELSE (IF output[1].type = "message"
          THEN OutputTextsOf(output[1].content) ELSE <<>>)
         \o AllOutputTexts(Tail(output))

\* C26 as stated: text extraction keeps only the parts tagged output_text,
\* concatenates the texts of the parts of one output item with no separator
\* and joins the texts of different items with a blank line; an absent or
\* empty output list gives the empty string.
C26_ConcatWithinItemJoinAcross ==
    fnOut # None =>
        TString(Get(fnOut)) =
            IF fnIn.output = None THEN ""
            ELSE Joined(TextPerItem(Get(fnIn.output)), "\n\n")

\* C26 amended: text extraction keeps only the output_text parts with a
\* non-empty text of the message items and joins all of them, in order, with
\* a blank line, between two parts of one item as well as between items; an
\* absent or empty output list, or one without such a part, gives the empty
\* string.
C26_EveryPartJoinedByBlankLine ==
    fnOut # None =>
        TString(Get(fnOut)) =
            IF fnIn.output = None THEN ""
            ELSE Joined(AllOutputTexts(Get(fnIn.output)), "\n\n")

C26_Witness ==
    /\ fnOut # None
    /\ fnIn.output # None
    /\ Len(Get(fnIn.output)) = MaxItems
    /\ \A i \in 1..MaxItems :
          /\ Get(fnIn.output)[i].type = "message"
          /\ Len(Get(fnIn.output)[i].content) = 2
          /\ \A j \in 1..2 : Get(fnIn.output)[i].content[j].type = "output_text"
                              /\ TLen(Get(fnIn.output)[i].content[j].text) > 0
    /\ includes(TString(Get(fnOut)), "i1p1\n\ni1p2\n\ni2p1")


\* the last k characters of a text
TLast(t, k) == TString(TDrop(t, TLen(t) - k))

\* C27: in every successful generate or converse call of the revisions that
\* truncate, truncation is the last step and is applied to the final
\* formatted text: a formatted text within the limit (raw text plus usage
\* footer, or the serialised JSON) is returned as it is, and a longer one
\* is returned as its first CHARACTER_LIMIT characters and the notice, even
\* when the raw model text alone was within the limit; a JSON text longer
\* than the limit is thereby cut inside its structure and has lost its
\* closing brace.
C27_TruncationAfterFormatting ==
    AnsweredStructured =>
        LET formatted == Get(fnOut).textContent
            raw == RawText(version, fnIn.response)
            returned == Get(fnOut).result.content
        IN  /\ TLen(formatted) >= TLen(raw)
            /\ IF TLen(formatted) <= CHARACTER_LIMIT
               THEN returned = formatted
               ELSE /\ TSlice(returned, CHARACTER_LIMIT)
                         = TSlice(formatted, CHARACTER_LIMIT)
                    /\ TDrop(returned, CHARACTER_LIMIT)
                         = TruncationNotice(version, TLen(formatted))
                    /\ FormatOf(fnIn.params) = "json" =>
                          /\ TLast(formatted, 2) = "\n}"
                          /\ ~TIncludes(returned, "\n}")

C27_Witness ==
    /\ AnsweredStructured
    /\ FormatOf(fnIn.params) = "markdown"
    /\ TLen(RawText(version, fnIn.response)) = CHARACTER_LIMIT - MaxExcess
    /\ TLen(Get(fnOut).textContent) > CHARACTER_LIMIT
    /\ TLen(Get(fnOut).result.content) > CHARACTER_LIMIT


\* C28: the active-model state is frozen after startup: once model
\* validation has finished, no step of the process (a generate, converse or
\* status call, whether it succeeds, is refused by validation or fails
\* upstream) changes the active model, the fallback flag or the configured
\* model, the fallback model being a constant; so every call in flight and
\* the last call answered read the active model the process still has.
C28_ActiveModelStateFrozen ==
    /\ [][Started => UNCHANGED <<ACTIVE_MODEL, MODEL_FALLBACK_USED,
                                 CONFIGURED_MODEL>>]_vars
    /\ [](/\ \A i \in 1..Len(inflight) :
                /\ inflight[i].seen = ACTIVE_MODEL
                /\ inflight[i].valAtCall = valOutcome
          /\ last # None =>
                /\ Get(last).seen = ACTIVE_MODEL
                /\ Get(last).valAtCall = valOutcome
                /\ Started)

C28_Witness ==
    /\ LastFailed
    /\ MODEL_FALLBACK_USED
    /\ ACTIVE_MODEL = FALLBACK_MODEL
    /\ CONFIGURED_MODEL = Some("gpt-4.1")
    /\ Len(inflight) = MaxInFlight


\* C29: concurrent tool calls are independent: with any number of calls in
\* flight and any order of their answers and failures, the request of each
\* call in flight and the result of each answered call are those computed
\* from its own parameters, the active model fixed at startup and its own
\* upstream response or error alone; and a step of one call (issued,
\* answered, failed, refused, status) leaves the record of every other call
\* in flight as it was.
C29_ConcurrentCallsIndependent ==
    /\ [](/\ \A i \in 1..Len(inflight) :
                inflight[i].request
                   = BuildRequest(version, inflight[i].params, ACTIVE_MODEL)
          /\ LastSucceeded =>
                LET call == Get(last)
                    request == BuildRequest(version, call.params, ACTIVE_MODEL)
                IN  /\ call.request = Some(request)
                    /\ call.result = HandleSuccess(version, call.params, request,
                                                   call.outcome.response)
          /\ LastFailed =>
                Get(last).result = HandleFailure(Get(last).outcome.error))
    /\ [][/\ \A j \in 1..Len(inflight') :
                \/ \E k \in 1..Len(inflight) : inflight'[j] = inflight[k]
                \/ j = Len(inflight) + 1
          /\ Len(inflight') >= Len(inflight) - 1
          /\ (Len(inflight') = Len(inflight) - 1) =>
                \E k \in 1..Len(inflight) :
                    /\ inflight' = SubSeq(inflight, 1, k - 1)
                                     \o SubSeq(inflight, k + 1, Len(inflight))
                    /\ Get(last').params = inflight[k].params]_vars

C29_Witness ==
    /\ LastSucceeded
    /\ Get(last).params.tool = "generate"
    /\ FormatOf(Get(last).params) = "json"
    /\ Len(inflight) = MaxInFlight
    /\ inflight[MaxInFlight].params.tool = "converse"
    /\ inflight[1].params.model = Some("gpt-4.1")


\* the text the upstream response of an answered call carries: the content
\* of its first choice, or the text of its one output_text part
UpstreamText ==
    IF version = "2.0.0"
    THEN Get(fnIn.response.output)[1].content[1].text
    ELSE Get(fnIn.response.choices[1])

\* C30: in the structured result of every successful generate or converse
\* call, truncated is true if and only if the formatted text was longer than
\* the character limit, and the text field holds the complete raw model
\* text: it is never shortened and carries neither the truncation notice
\* nor the usage footer, even when truncated is true.
C30_StructuredTextWhole ==
    AnsweredStructured =>
        LET sc == Get(Get(fnOut).result.structuredContent)
        IN  /\ sc.truncated <=> TLen(Get(fnOut).textContent) > CHARACTER_LIMIT
            /\ sc.text = UpstreamText
            /\ TLen(sc.text) = TLen(UpstreamText)
            /\ ~TIncludes(sc.text, "Response truncated")
            /\ ~TIncludes(sc.text, "**Usage:**")

C30_Witness ==
    /\ AnsweredStructured
    /\ Get(Get(fnOut).result.structuredContent).truncated
    /\ IsSome(fnIn.response.usage)
    /\ TLen(Get(Get(fnOut).result.structuredContent).text) = CHARACTER_LIMIT + 1
    /\ TLen(Get(fnOut).result.content) > CHARACTER_LIMIT + 1

====
